---- MODULE Spec2Model ----
(***************************************************************************)
(* A model of package pwdatav3: the ASP.NET Core (version 3) password hash *)
(* record, its binary and base64 codecs, construction and verification.    *)
(*                                                                         *)
(* The repository carries two alternative implementations of the package   *)
(* (they declare the same package-level names, so a build links one):      *)
(*   "pwhash"   - type PWHash   (src/pwhash.go lines 1-160)                *)
(*   "pwdatav3" - type PWDataV3 (src/pwhash.go lines 179-363)              *)
(* The variable prog says which one a behaviour runs.                      *)
(*                                                                         *)
(* Bytes are naturals 0..255, byte slices are sequences of bytes, text is  *)
(* a sequence of character codes.  TLC's integers are 32 bits wide, so a   *)
(* uint32 is kept as two 16-bit limbs <<hi, lo>> and a Go int (64-bit      *)
(* build) as four 16-bit limbs in two's complement, most significant first.*)
(***************************************************************************)
EXTENDS Integers, Sequences, FiniteSets, TLC

VARIABLES prog, pd, d, heap, last, vh

vars == <<prog, pd, d, heap, last, vh>>

----------------------------------------------------------------------------
(* Program constants *)

v3 == 1
prfSHA256 == 1
DefaultIter == 10000
DefaultSaltLen == 16
hdrLength == 1 + 3 * 4
sha256Size == 32
MaxIter == 100000
MaxSaltLen == 64

(* Errors: the package's error values, the wrapped base64 error, the       *)
(* wrapped random-source error.                                            *)
ErrNil == "nil"
ErrCorrupt == "ErrCorrupt"
ErrVersion == "ErrVersion"
ErrFunction == "ErrFunction"
ErrParameter == "ErrParameter"
ErrBase64 == "illegal base64 data"
ErrSalt == "cannot make salt value"
(* A run-time panic (index out of range, or panic(err) in Must). *)
Panic == "panic"

----------------------------------------------------------------------------
(* Fixed-width integers *)

Limb == 256 * 256

(* uint32(n) of a natural n: the conversion keeps the low 32 bits *)
U32(n) == <<(n \div Limb) % Limb, n % Limb>>

(* The value of a uint32 is a TLC integer only below 2^31. *)
U32Small(u) == u[1] < 32768
U32Val(u) == u[1] * Limb + u[2]
U32Lt(u, n) == U32Small(u) /\ U32Val(u) < n
U32Gt(u, n) == ~U32Small(u) \/ U32Val(u) > n
U32Eq(u, n) == U32Small(u) /\ U32Val(u) = n

(* Go int of a small natural n *)
IntOf(n) == <<0, 0, n \div Limb, n % Limb>>
IntNeg(i) == i[1] >= 32768
(* i <= 1 as signed 64-bit *)
IntLe1(i) == IntNeg(i) \/ (i[1] = 0 /\ i[2] = 0 /\ i[3] = 0 /\ i[4] <= 1)

(* uint32(iter): the conversion keeps the low 32 bits *)
Uint32OfInt(i) == <<i[3], i[4]>>
(* int(u) for a uint32 u: zero extension *)
IntOfUint32(u) == <<0, 0, u[1], u[2]>>

(* PutUint32 with the byte order reversed *)
PutUint32LittleEndian(u) == <<u[2] % 256, u[2] \div 256, u[1] % 256, u[1] \div 256>>

(* binary.BigEndian.PutUint32 *)
PutUint32(u) == <<u[1] \div 256, u[1] % 256, u[2] \div 256, u[2] % 256>>

(* binary.BigEndian.Uint32(a[off:]): the slice needs off <= len(a), the    *)
(* read needs four bytes.                                                  *)
CanUint32(a, off) == off + 4 <= Len(a)
Uint32At(a, off) == <<a[off + 1] * 256 + a[off + 2], a[off + 3] * 256 + a[off + 4]>>

Take(s, n) == SubSeq(s, 1, n)
Zeros(n) == [i \in 1..n |-> 0]

----------------------------------------------------------------------------
(* Key derivation.                                                         *)
(* hashPW(password, salt, iter) is pbkdf2.Key(password, salt, iter, 32,    *)
(* sha256.New), a library function: PBKDF2 (RFC 8018) with HMAC (RFC 2104) *)
(* over SHA-256 (FIPS 180-4), one block of output.  It is written out      *)
(* below as those documents define it, on 32-bit words kept as two 16-bit  *)
(* limbs.  Thousands of rounds of it are beyond evaluation here, so its    *)
(* values on the arguments that the inputs below lead to, and on the       *)
(* arguments of the repository's tests, are tabled in KnownKeys; hashPW    *)
(* takes a key from the table where it is there and derives it otherwise.  *)

(* pbkdf2.Key: the first round always runs, rounds 2..iter follow *)
Rounds(iter) == IF IntLe1(iter) THEN IntOf(1) ELSE iter

(* Bitwise functions of three n-bit numbers, bit by bit *)
RECURSIVE Xor3Bits(_, _, _, _)
Xor3Bits(x, y, z, n) ==
    IF n = 0 THEN 0
    ELSE ((x + y + z) % 2) + 2 * Xor3Bits(x \div 2, y \div 2, z \div 2, n - 1)
RECURSIVE ChBits(_, _, _, _)
ChBits(x, y, z, n) ==
    IF n = 0 THEN 0
    ELSE (IF x % 2 = 1 THEN y % 2 ELSE z % 2)
             + 2 * ChBits(x \div 2, y \div 2, z \div 2, n - 1)
RECURSIVE MajBits(_, _, _, _)
MajBits(x, y, z, n) ==
    IF n = 0 THEN 0
    ELSE (((x % 2) + (y % 2) + (z % 2)) \div 2)
             + 2 * MajBits(x \div 2, y \div 2, z \div 2, n - 1)

(* 32-bit words <<hi, lo>> *)
Xor3(a, b, c) == <<Xor3Bits(a[1], b[1], c[1], 16), Xor3Bits(a[2], b[2], c[2], 16)>>
Ch(a, b, c) == <<ChBits(a[1], b[1], c[1], 16), ChBits(a[2], b[2], c[2], 16)>>
Maj(a, b, c) == <<MajBits(a[1], b[1], c[1], 16), MajBits(a[2], b[2], c[2], 16)>>
Add32(a, b) ==
    LET lo == a[2] + b[2]
        hi == a[1] + b[1] + lo \div Limb
    IN <<hi % Limb, lo % Limb>>
RECURSIVE RotateRight(_, _)
RotateRight(a, n) ==
    IF n >= 16 THEN RotateRight(<<a[2], a[1]>>, n - 16)
    ELSE <<(a[1] \div 2^n) + (a[2] % 2^n) * 2^(16 - n),
           (a[2] \div 2^n) + (a[1] % 2^n) * 2^(16 - n)>>
ShiftRight(a, n) ==
    IF n >= 16 THEN <<0, a[1] \div 2^(n - 16)>>
    ELSE <<a[1] \div 2^n, (a[2] \div 2^n) + (a[1] % 2^n) * 2^(16 - n)>>

(* SHA-256: the round constants and the initial hash value *)
sha256K ==
    <<
      <<17034, 12184>>, <<28983, 17553>>, <<46528, 64463>>, <<59829, 56229>>,
      <<14678, 49755>>, <<23025, 4593>>, <<37439, 33444>>, <<43804, 24277>>,
      <<55303, 43672>>, <<4739, 23297>>, <<9265, 34238>>, <<21772, 32195>>,
      <<29374, 23924>>, <<32990, 45566>>, <<39900, 1703>>, <<49563, 61812>>,
      <<58523, 27073>>, <<61374, 18310>>, <<4033, 40390>>, <<9228, 41420>>,
      <<11753, 11375>>, <<19060, 33962>>, <<23728, 43484>>, <<30457, 35034>>,
      <<38974, 20818>>, <<43057, 50797>>, <<45059, 10184>>, <<48985, 32711>>,
      <<50912, 3059>>, <<54695, 37191>>, <<1738, 25425>>, <<5161, 10599>>,
      <<10167, 2693>>, <<11803, 8504>>, <<19756, 28156>>, <<21304, 3347>>,
      <<25866, 29524>>, <<30314, 2747>>, <<33218, 51502>>, <<37490, 11397>>,
      <<41663, 59553>>, <<43034, 26187>>, <<49739, 35696>>, <<51052, 20899>>,
      <<53650, 59417>>, <<54937, 1572>>, <<62478, 13701>>, <<4202, 41072>>,
      <<6564, 49430>>, <<7735, 27656>>, <<10056, 30540>>, <<13488, 48309>>,
      <<14620, 3251>>, <<20184, 43594>>, <<23452, 51791>>, <<26670, 28659>>,
      <<29839, 33518>>, <<30885, 25455>>, <<33992, 30740>>, <<36039, 520>>,
      <<37054, 65530>>, <<42064, 27883>>, <<48889, 41975>>, <<50801, 30962>>
    >>
sha256Init ==
    <<
      <<27145, 58983>>, <<47975, 44677>>, <<15470, 62322>>, <<42319, 62778>>,
      <<20750, 21119>>, <<39685, 26764>>, <<8067, 55723>>, <<23520, 52505>>
    >>

BigSigma0(x) == Xor3(RotateRight(x, 2), RotateRight(x, 13), RotateRight(x, 22))
BigSigma1(x) == Xor3(RotateRight(x, 6), RotateRight(x, 11), RotateRight(x, 25))
SmallSigma0(x) == Xor3(RotateRight(x, 7), RotateRight(x, 18), ShiftRight(x, 3))
SmallSigma1(x) == Xor3(RotateRight(x, 17), RotateRight(x, 19), ShiftRight(x, 10))

(* The message schedule: W[1..16] is the block, the result W[1..64] *)
RECURSIVE Schedule(_)
Schedule(w) ==
    LET t == Len(w) + 1
    IN IF t > 64 THEN w
       ELSE Schedule(Append(w, Add32(Add32(SmallSigma1(w[t - 2]), w[t - 7]),
                                     Add32(SmallSigma0(w[t - 15]), w[t - 16]))))

(* The working variables v = <<a, b, c, d, e, f, g, h>> after a round     *)
(* with the sums t1 and t2; v[9] is the number of the round                *)
Working(v, t1, t2) ==
    <<Add32(t1, t2), v[1], v[2], v[3], Add32(v[4], t1), v[5], v[6], v[7], v[9] + 1>>

(* The rounds from v[9] to 64 *)
RECURSIVE Compression(_, _)
Compression(v, w) ==
    IF v[9] > 64 THEN v
    ELSE Compression(
             Working(v,
                     Add32(Add32(Add32(v[8], BigSigma1(v[5])),
                                 Add32(Ch(v[5], v[6], v[7]), sha256K[v[9]])),
                           w[v[9]]),
                     Add32(BigSigma0(v[1]), Maj(v[1], v[2], v[3]))),
             w)

(* The sixteen big-endian words of a 64-byte block m *)
BlockWords(m) ==
    [i \in 1..16 |-> <<m[4 * i - 3] * 256 + m[4 * i - 2],
                       m[4 * i - 1] * 256 + m[4 * i]>>]

(* The hash value h with the working variables v added, word by word *)
AddWords(h, v) == [i \in 1..8 |-> Add32(h[i], v[i])]

(* One 64-byte block m into the hash value h *)
Block(h, m) == AddWords(h, Compression(h \o <<1>>, Schedule(BlockWords(m))))

(* The message, 0x80, zeros, and the length in bits in eight bytes *)
Padded(msg) ==
    LET bits == 8 * Len(msg)
    IN msg \o <<128>> \o Zeros((64 - ((Len(msg) + 9) % 64)) % 64)
           \o <<0, 0, 0, 0, bits \div 2^24, (bits \div 2^16) % 256,
                (bits \div 256) % 256, bits % 256>>

RECURSIVE Blocks(_, _, _)
Blocks(h, m, k) ==
    IF 64 * k >= Len(m) THEN h
    ELSE Blocks(Block(h, SubSeq(m, 64 * k + 1, 64 * k + 64)), m, k + 1)

(* The big-endian bytes of the words of h *)
WordBytes(h) ==
    [i \in 1..4 * Len(h) |->
        IF i % 2 = 1 THEN h[(i + 3) \div 4][(((i - 1) \div 2) % 2) + 1] \div 256
        ELSE h[(i + 3) \div 4][(((i - 1) \div 2) % 2) + 1] % 256]

(* sha256.Sum256(msg), 32 bytes *)
SHA256(msg) == WordBytes(Blocks(sha256Init, Padded(msg), 0))

XorBytes(x, y) == [i \in 1..Len(x) |-> Xor3Bits(x[i], y[i], 0, 8)]

(* The HMAC key of a password: one longer than the block is hashed *)
hmacKey(password) ==
    IF Len(password) > 64 THEN SHA256(password) ELSE password

(* The key padded with zeros to the block, xor 0x36 and xor 0x5c *)
hmacPads(key) ==
    LET block == key \o Zeros(64 - Len(key))
    IN <<XorBytes(block, [i \in 1..64 |-> 54]), XorBytes(block, [i \in 1..64 |-> 92])>>

(* The sum of the first pad and msg, then of the next pad and that sum,    *)
(* and so on: with the two pads of a key, HMAC of msg                      *)
RECURSIVE Sums(_, _)
Sums(pads, msg) ==
    IF pads = <<>> THEN msg
    ELSE Sums(Tail(pads), SHA256(pads[1] \o msg))

(* hmac.New(sha256.New, password) over msg *)
HMAC(password, msg) == Sums(hmacPads(hmacKey(password)), msg)

(* One round of pbkdf2.Key on <<U, T>>: U = prf(U), T ^= U; u is prf(U) *)
Xored(t, u) == <<u, XorBytes(t, u)>>
Round(pads, ut) == Xored(ut[2], Sums(pads, ut[1]))

(* n times 2^k rounds, by halves *)
RECURSIVE RoundsTimes(_, _, _, _)
RoundsTimes(pads, ut, n, k) ==
    IF n = 0 THEN ut
    ELSE IF n > 1 THEN RoundsTimes(pads, RoundsTimes(pads, ut, n \div 2, k), n - n \div 2, k)
    ELSE IF k = 0 THEN Round(pads, ut)
    ELSE RoundsTimes(pads, RoundsTimes(pads, ut, 1, k - 1), 1, k - 1)

(* The rounds that a Go int counts, its limbs i..1 in turn *)
RECURSIVE RoundsOf(_, _, _, _)
RoundsOf(pads, ut, rounds, i) ==
    IF i = 0 THEN ut
    ELSE RoundsOf(pads, RoundsTimes(pads, ut, rounds[i], 16 * (4 - i)), rounds, i - 1)

(* pbkdf2.Key(password, salt, rounds, 32, sha256.New) for rounds >= 1, a   *)
(* Go int.  The first round is on the salt and the block number 1, with T  *)
(* its U; each later one is on the U before it.                            *)
Key(password, salt, rounds) ==
    RoundsOf(hmacPads(hmacKey(password)),
             <<salt \o <<0, 0, 0, 1>>, Zeros(sha256Size)>>, rounds, 4)[2]

(* pbkdf2.Key(password, salt, rounds, 32, sha256.New) where it is known:   *)
(* <<password, salt, rounds>> :> key                                       *)
KnownKeys ==
       <<<<>>, <<>>, <<0, 0, 0, 1>>>>
       :> <<247, 206, 11, 101, 61, 45, 114, 164, 16, 140, 245, 171, 233,
          18, 255, 221, 119, 118, 22, 219, 187, 39, 167, 14, 130, 4, 243, 174,
          45, 15, 111, 173>>
    @@ <<<<>>, <<17, 18, 19, 20, 21, 22, 23, 24, 25, 26, 27, 28, 29, 30, 31,
       32>>, <<0, 0, 0, 1>>>>
       :> <<12, 121, 113, 79, 244, 38, 54, 12, 191, 105, 65, 118, 36, 101,
          236, 211, 5, 155, 60, 254, 203, 254, 24, 97, 253, 231, 73, 5, 156,
          167, 102, 78>>
    @@ <<<<>>, <<33, 34, 35, 36, 37, 38, 39, 40, 41, 42, 43, 44, 45, 46, 47,
       48>>, <<0, 0, 0, 1>>>>
       :> <<234, 149, 151, 46, 78, 77, 233, 40, 23, 202, 16, 134, 236, 232,
          186, 156, 88, 180, 105, 0, 128, 179, 102, 240, 253, 53, 33, 102,
          171, 166, 167, 210>>
    @@ <<<<>>, <<161>>, <<0, 0, 0, 1>>>>
       :> <<83, 165, 128, 213, 249, 91, 111, 164, 69, 99, 50, 104, 191,
          126, 164, 70, 111, 240, 194, 60, 115, 61, 156, 224, 142, 160, 255,
          26, 114, 141, 239, 48>>
    @@ <<<<>>, <<161, 162>>, <<0, 0, 0, 1>>>>
       :> <<123, 202, 103, 12, 32, 152, 88, 153, 39, 127, 234, 13, 131, 1,
          235, 100, 240, 26, 222, 183, 130, 59, 156, 87, 61, 251, 230, 168,
          180, 204, 129, 0>>
    @@ <<<<>>, <<161, 162, 163>>, <<0, 0, 0, 1>>>>
       :> <<145, 10, 230, 81, 141, 219, 175, 231, 68, 223, 250, 214, 238,
          7, 178, 47, 52, 213, 150, 59, 244, 121, 233, 9, 39, 115, 155, 136,
          134, 237, 145, 157>>
    @@ <<<<>>, <<161, 162, 163, 164>>, <<0, 0, 0, 1>>>>
       :> <<179, 170, 230, 239, 224, 96, 211, 175, 54, 32, 34, 237, 163,
          84, 213, 67, 101, 190, 129, 118, 103, 234, 125, 173, 243, 208, 39,
          212, 177, 160, 168, 210>>
    @@ <<<<>>, <<161, 162, 163, 164, 165, 166, 167, 168, 169, 170, 171, 172,
       173, 174, 175, 176>>, <<0, 0, 0, 1>>>>
       :> <<76, 191, 75, 212, 26, 26, 102, 41, 87, 86, 23, 219, 232, 150,
          0, 61, 133, 137, 17, 222, 25, 136, 31, 218, 254, 45, 113, 84, 189,
          69, 2, 225>>
    @@ <<<<>>, <<161, 162, 163, 164, 165, 166, 167, 168, 169, 170, 171, 172,
       173, 174, 175, 176, 177, 178, 179, 180, 181, 182, 183, 184, 185, 186,
       187, 188, 189, 190, 191, 192, 193, 194, 195, 196, 197, 198, 199, 200,
       201, 202, 203, 204, 205, 206, 207, 208, 209, 210, 211, 212, 213, 214,
       215, 216, 217, 218, 219, 220, 221, 222, 223, 224>>, <<0, 0, 0, 1>>>>
       :> <<216, 71, 127, 141, 148, 146, 136, 160, 42, 122, 235, 109, 59,
          19, 252, 186, 6, 71, 67, 188, 241, 204, 114, 238, 69, 165, 133, 59,
          90, 42, 129, 43>>
    @@ <<<<>>, <<161, 162, 163, 164, 165, 166, 167, 168, 169, 170, 171, 172,
       173, 174, 175, 176, 177, 178, 179, 180, 181, 182, 183, 184, 185, 186,
       187, 188, 189, 190, 191, 192, 193, 194, 195, 196, 197, 198, 199, 200,
       201, 202, 203, 204, 205, 206, 207, 208, 209, 210, 211, 212, 213, 214,
       215, 216, 217, 218, 219, 220, 221, 222, 223, 224, 225>>, <<0, 0, 0,
       1>>>>
       :> <<107, 28, 93, 174, 0, 16, 124, 32, 4, 17, 88, 177, 173, 31, 41,
          100, 140, 78, 47, 180, 253, 135, 90, 134, 148, 228, 103, 177, 248,
          25, 140, 145>>
    @@ <<<<>>, <<162>>, <<0, 0, 0, 1>>>>
       :> <<1, 150, 31, 183, 211, 20, 22, 141, 4, 92, 122, 71, 29, 208,
          179, 63, 134, 42, 74, 75, 101, 11, 65, 21, 28, 208, 111, 198, 188,
          176, 15, 247>>
    @@ <<<<>>, <<162, 162>>, <<0, 0, 0, 1>>>>
       :> <<125, 144, 122, 83, 4, 181, 163, 246, 159, 210, 51, 143, 140,
          246, 195, 118, 180, 127, 156, 48, 249, 136, 253, 212, 49, 138, 94,
          118, 234, 98, 120, 25>>
    @@ <<<<>>, <<162, 162, 163>>, <<0, 0, 0, 1>>>>
       :> <<196, 151, 4, 222, 193, 211, 78, 23, 174, 19, 47, 249, 11, 253,
          252, 200, 138, 107, 238, 191, 75, 20, 66, 222, 70, 175, 174, 67,
          236, 141, 158, 213>>
    @@ <<<<>>, <<162, 162, 163, 164>>, <<0, 0, 0, 1>>>>
       :> <<72, 97, 242, 113, 74, 150, 194, 27, 171, 109, 213, 235, 99, 99,
          130, 207, 157, 210, 60, 86, 28, 210, 166, 14, 117, 42, 175, 74, 189,
          128, 124, 152>>
    @@ <<<<>>, <<162, 162, 163, 164, 165, 166, 167, 168, 169, 170, 171, 172,
       173, 174, 175, 176>>, <<0, 0, 0, 1>>>>
       :> <<191, 197, 236, 174, 246, 103, 181, 133, 142, 36, 162, 170, 20,
          10, 74, 86, 77, 204, 134, 176, 54, 121, 0, 18, 212, 55, 100, 250,
          252, 200, 143, 91>>
    @@ <<<<>>, <<162, 162, 163, 164, 165, 166, 167, 168, 169, 170, 171, 172,
       173, 174, 175, 176, 177, 178, 179, 180, 181, 182, 183, 184, 185, 186,
       187, 188, 189, 190, 191, 192, 193, 194, 195, 196, 197, 198, 199, 200,
       201, 202, 203, 204, 205, 206, 207, 208, 209, 210, 211, 212, 213, 214,
       215, 216, 217, 218, 219, 220, 221, 222, 223, 224>>, <<0, 0, 0, 1>>>>
       :> <<160, 159, 108, 63, 128, 31, 178, 12, 94, 105, 113, 122, 198,
          210, 21, 241, 181, 206, 58, 40, 79, 138, 60, 47, 26, 232, 6, 171,
          110, 21, 71, 104>>
    @@ <<<<104, 101, 108, 108, 111>>, <<238>>, <<0, 0, 0, 1>>>>
       :> <<241, 172, 83, 0, 56, 168, 254, 53, 9, 14, 36, 178, 189, 21,
          134, 84, 58, 53, 26, 67, 26, 188, 49, 79, 119, 187, 62, 102, 137,
          250, 90, 49>>
    @@ <<<<112>>, <<>>, <<0, 0, 0, 1>>>>
       :> <<51, 238, 55, 110, 51, 77, 148, 47, 156, 252, 216, 108, 105,
          124, 20, 110, 130, 116, 227, 54, 39, 198, 208, 21, 173, 40, 62, 47,
          190, 4, 172, 55>>
    @@ <<<<112>>, <<17, 18, 19, 20, 21, 22, 23, 24, 25, 26, 27, 28, 29, 30,
       31, 32>>, <<0, 0, 0, 1>>>>
       :> <<167, 171, 190, 120, 236, 101, 136, 78, 216, 168, 113, 226, 31,
          152, 48, 198, 216, 41, 145, 154, 219, 173, 93, 188, 162, 230, 124,
          70, 152, 84, 203, 247>>
    @@ <<<<112>>, <<33, 34, 35, 36, 37, 38, 39, 40, 41, 42, 43, 44, 45, 46,
       47, 48>>, <<0, 0, 0, 1>>>>
       :> <<210, 123, 72, 251, 228, 92, 135, 44, 158, 213, 158, 111, 243,
          67, 206, 33, 225, 37, 237, 1, 99, 48, 76, 41, 60, 235, 123, 185, 76,
          250, 56, 104>>
    @@ <<<<112>>, <<161>>, <<0, 0, 0, 1>>>>
       :> <<105, 215, 33, 21, 237, 101, 232, 150, 208, 11, 90, 127, 85, 80,
          171, 206, 23, 197, 129, 252, 194, 235, 87, 60, 149, 144, 112, 234,
          194, 130, 124, 43>>
    @@ <<<<112>>, <<161, 162>>, <<0, 0, 0, 1>>>>
       :> <<207, 17, 153, 121, 99, 27, 0, 6, 5, 130, 12, 98, 142, 62, 20,
          126, 238, 111, 174, 246, 119, 167, 88, 20, 231, 110, 1, 191, 223,
          199, 117, 253>>
    @@ <<<<112>>, <<161, 162, 163>>, <<0, 0, 0, 1>>>>
       :> <<210, 67, 216, 116, 111, 198, 126, 235, 32, 58, 163, 19, 119,
          98, 182, 197, 10, 216, 240, 33, 23, 179, 27, 184, 192, 73, 31, 40,
          8, 56, 115, 69>>
    @@ <<<<112>>, <<161, 162, 163, 164>>, <<0, 0, 0, 1>>>>
       :> <<133, 107, 162, 86, 182, 252, 207, 244, 180, 142, 23, 140, 91,
          162, 63, 68, 99, 127, 170, 240, 38, 249, 129, 252, 50, 177, 64, 22,
          46, 169, 105, 227>>
    @@ <<<<112>>, <<161, 162, 163, 164, 165, 166, 167, 168, 169, 170, 171,
       172, 173, 174, 175, 176>>, <<0, 0, 0, 1>>>>
       :> <<214, 177, 229, 197, 150, 144, 12, 35, 208, 187, 225, 187, 66,
          202, 117, 157, 94, 15, 148, 54, 85, 236, 78, 85, 240, 239, 70, 194,
          85, 120, 115, 148>>
    @@ <<<<112>>, <<161, 162, 163, 164, 165, 166, 167, 168, 169, 170, 171,
       172, 173, 174, 175, 176, 177, 178, 179, 180, 181, 182, 183, 184, 185,
       186, 187, 188, 189, 190, 191, 192, 193, 194, 195, 196, 197, 198, 199,
       200, 201, 202, 203, 204, 205, 206, 207, 208, 209, 210, 211, 212, 213,
       214, 215, 216, 217, 218, 219, 220, 221, 222, 223, 224>>, <<0, 0, 0,
       1>>>>
       :> <<43, 190, 1, 128, 64, 131, 110, 75, 55, 227, 226, 255, 119, 45,
          216, 242, 225, 108, 101, 114, 156, 144, 108, 247, 140, 213, 22, 229,
          70, 127, 75, 235>>
    @@ <<<<112>>, <<161, 162, 163, 164, 165, 166, 167, 168, 169, 170, 171,
       172, 173, 174, 175, 176, 177, 178, 179, 180, 181, 182, 183, 184, 185,
       186, 187, 188, 189, 190, 191, 192, 193, 194, 195, 196, 197, 198, 199,
       200, 201, 202, 203, 204, 205, 206, 207, 208, 209, 210, 211, 212, 213,
       214, 215, 216, 217, 218, 219, 220, 221, 222, 223, 224, 225>>, <<0, 0,
       0, 1>>>>
       :> <<13, 101, 153, 43, 250, 6, 3, 129, 232, 186, 157, 88, 219, 35,
          46, 87, 122, 98, 76, 175, 144, 20, 172, 158, 109, 95, 164, 89, 25,
          217, 89, 225>>
    @@ <<<<112>>, <<162>>, <<0, 0, 0, 1>>>>
       :> <<211, 141, 96, 174, 51, 189, 147, 120, 79, 59, 183, 1, 24, 113,
          136, 17, 245, 127, 205, 116, 61, 220, 93, 94, 241, 246, 158, 240,
          18, 231, 2, 47>>
    @@ <<<<112>>, <<162, 162>>, <<0, 0, 0, 1>>>>
       :> <<27, 229, 81, 103, 162, 183, 241, 123, 42, 186, 173, 225, 207,
          12, 183, 142, 50, 123, 21, 79, 23, 80, 169, 128, 192, 32, 102, 35,
          20, 7, 233, 92>>
    @@ <<<<112>>, <<162, 162, 163>>, <<0, 0, 0, 1>>>>
       :> <<252, 89, 196, 198, 195, 235, 219, 152, 189, 226, 255, 130, 168,
          148, 249, 253, 41, 20, 197, 41, 38, 236, 138, 99, 140, 85, 146, 149,
          227, 181, 0, 50>>
    @@ <<<<112>>, <<162, 162, 163, 164>>, <<0, 0, 0, 1>>>>
       :> <<253, 162, 113, 154, 248, 152, 73, 89, 165, 158, 65, 212, 37,
          123, 210, 85, 16, 20, 202, 210, 229, 137, 164, 235, 31, 124, 44, 62,
          24, 106, 174, 109>>
    @@ <<<<112>>, <<162, 162, 163, 164, 165, 166, 167, 168, 169, 170, 171,
       172, 173, 174, 175, 176>>, <<0, 0, 0, 1>>>>
       :> <<170, 246, 125, 212, 185, 242, 43, 237, 107, 236, 134, 61, 100,
          72, 68, 11, 205, 18, 152, 17, 119, 14, 149, 68, 69, 80, 183, 53,
          110, 81, 23, 229>>
    @@ <<<<112>>, <<162, 162, 163, 164, 165, 166, 167, 168, 169, 170, 171,
       172, 173, 174, 175, 176, 177, 178, 179, 180, 181, 182, 183, 184, 185,
       186, 187, 188, 189, 190, 191, 192, 193, 194, 195, 196, 197, 198, 199,
       200, 201, 202, 203, 204, 205, 206, 207, 208, 209, 210, 211, 212, 213,
       214, 215, 216, 217, 218, 219, 220, 221, 222, 223, 224>>, <<0, 0, 0,
       1>>>>
       :> <<2, 164, 72, 71, 48, 56, 209, 180, 22, 175, 192, 135, 108, 147,
          182, 207, 231, 165, 57, 12, 167, 93, 102, 155, 19, 5, 160, 99, 129,
          138, 115, 67>>
    @@ <<<<112, 112>>, <<>>, <<0, 0, 0, 1>>>>
       :> <<148, 62, 210, 142, 109, 236, 199, 149, 142, 2, 220, 148, 105,
          105, 193, 106, 171, 137, 1, 112, 168, 24, 40, 59, 156, 20, 241, 80,
          133, 135, 129, 234>>
    @@ <<<<112, 112>>, <<17, 18, 19, 20, 21, 22, 23, 24, 25, 26, 27, 28, 29,
       30, 31, 32>>, <<0, 0, 0, 1>>>>
       :> <<254, 59, 88, 161, 177, 8, 200, 205, 89, 155, 222, 85, 126, 124,
          87, 244, 39, 102, 182, 71, 80, 95, 12, 247, 140, 16, 176, 81, 127,
          192, 111, 152>>
    @@ <<<<112, 112>>, <<33, 34, 35, 36, 37, 38, 39, 40, 41, 42, 43, 44, 45,
       46, 47, 48>>, <<0, 0, 0, 1>>>>
       :> <<152, 45, 133, 96, 34, 106, 35, 240, 190, 255, 107, 106, 217,
          255, 244, 148, 195, 143, 208, 137, 116, 62, 77, 15, 61, 231, 209,
          173, 46, 157, 82, 152>>
    @@ <<<<112, 112>>, <<161>>, <<0, 0, 0, 1>>>>
       :> <<2, 218, 61, 54, 15, 252, 95, 43, 145, 96, 175, 149, 17, 169,
          58, 8, 188, 198, 86, 81, 181, 109, 207, 200, 131, 103, 133, 29, 154,
          91, 66, 152>>
    @@ <<<<112, 112>>, <<161, 162>>, <<0, 0, 0, 1>>>>
       :> <<112, 43, 60, 17, 200, 197, 203, 85, 122, 169, 38, 75, 66, 112,
          220, 237, 116, 213, 129, 187, 242, 217, 43, 246, 211, 165, 64, 111,
          195, 103, 43, 136>>
    @@ <<<<112, 112>>, <<161, 162, 163>>, <<0, 0, 0, 1>>>>
       :> <<68, 139, 33, 4, 93, 155, 188, 5, 169, 56, 153, 40, 244, 25, 72,
          173, 253, 95, 5, 4, 61, 170, 123, 199, 195, 154, 185, 32, 138, 223,
          17, 158>>
    @@ <<<<112, 112>>, <<161, 162, 163, 164>>, <<0, 0, 0, 1>>>>
       :> <<193, 226, 93, 59, 30, 159, 68, 122, 41, 198, 97, 13, 224, 202,
          59, 37, 218, 98, 113, 255, 247, 75, 60, 110, 234, 138, 159, 18, 175,
          5, 213, 156>>
    @@ <<<<112, 112>>, <<161, 162, 163, 164, 165, 166, 167, 168, 169, 170,
       171, 172, 173, 174, 175, 176>>, <<0, 0, 0, 1>>>>
       :> <<88, 103, 104, 174, 154, 213, 181, 20, 41, 60, 162, 75, 168,
          113, 197, 1, 78, 246, 121, 11, 80, 175, 164, 61, 129, 14, 21, 47,
          62, 64, 128, 166>>
    @@ <<<<112, 112>>, <<161, 162, 163, 164, 165, 166, 167, 168, 169, 170,
       171, 172, 173, 174, 175, 176, 177, 178, 179, 180, 181, 182, 183, 184,
       185, 186, 187, 188, 189, 190, 191, 192, 193, 194, 195, 196, 197, 198,
       199, 200, 201, 202, 203, 204, 205, 206, 207, 208, 209, 210, 211, 212,
       213, 214, 215, 216, 217, 218, 219, 220, 221, 222, 223, 224>>, <<0, 0,
       0, 1>>>>
       :> <<228, 15, 241, 222, 28, 140, 157, 21, 43, 73, 210, 192, 10, 163,
          221, 229, 160, 234, 218, 148, 74, 18, 77, 233, 120, 240, 65, 112,
          77, 189, 33, 185>>
    @@ <<<<112, 112>>, <<161, 162, 163, 164, 165, 166, 167, 168, 169, 170,
       171, 172, 173, 174, 175, 176, 177, 178, 179, 180, 181, 182, 183, 184,
       185, 186, 187, 188, 189, 190, 191, 192, 193, 194, 195, 196, 197, 198,
       199, 200, 201, 202, 203, 204, 205, 206, 207, 208, 209, 210, 211, 212,
       213, 214, 215, 216, 217, 218, 219, 220, 221, 222, 223, 224, 225>>,
       <<0, 0, 0, 1>>>>
       :> <<151, 208, 159, 195, 179, 134, 219, 210, 106, 210, 35, 125, 77,
          15, 113, 127, 39, 58, 97, 47, 60, 68, 120, 114, 53, 226, 237, 145,
          112, 116, 251, 168>>
    @@ <<<<112, 112>>, <<162>>, <<0, 0, 0, 1>>>>
       :> <<202, 165, 251, 239, 115, 253, 21, 41, 131, 41, 112, 8, 133, 3,
          21, 248, 196, 33, 165, 1, 215, 214, 133, 219, 139, 246, 51, 254, 18,
          17, 107, 27>>
    @@ <<<<112, 112>>, <<162, 162>>, <<0, 0, 0, 1>>>>
       :> <<128, 37, 242, 24, 96, 78, 230, 164, 76, 149, 96, 32, 147, 188,
          59, 116, 65, 11, 38, 205, 253, 32, 87, 70, 104, 42, 39, 2, 36, 239,
          155, 154>>
    @@ <<<<112, 112>>, <<162, 162, 163>>, <<0, 0, 0, 1>>>>
       :> <<195, 119, 80, 114, 142, 66, 220, 72, 133, 63, 101, 160, 97, 86,
          81, 9, 24, 126, 16, 244, 51, 189, 228, 121, 134, 170, 60, 5, 35,
          250, 80, 108>>
    @@ <<<<112, 112>>, <<162, 162, 163, 164>>, <<0, 0, 0, 1>>>>
       :> <<118, 166, 245, 140, 139, 219, 122, 66, 34, 63, 186, 35, 39,
          179, 64, 236, 233, 183, 197, 78, 101, 162, 86, 220, 199, 223, 198,
          25, 87, 198, 239, 159>>
    @@ <<<<112, 112>>, <<162, 162, 163, 164, 165, 166, 167, 168, 169, 170,
       171, 172, 173, 174, 175, 176>>, <<0, 0, 0, 1>>>>
       :> <<198, 191, 19, 50, 14, 226, 223, 174, 239, 124, 113, 214, 186,
          134, 54, 36, 180, 82, 6, 54, 128, 29, 216, 8, 224, 12, 243, 44, 160,
          99, 20, 45>>
    @@ <<<<112, 112>>, <<162, 162, 163, 164, 165, 166, 167, 168, 169, 170,
       171, 172, 173, 174, 175, 176, 177, 178, 179, 180, 181, 182, 183, 184,
       185, 186, 187, 188, 189, 190, 191, 192, 193, 194, 195, 196, 197, 198,
       199, 200, 201, 202, 203, 204, 205, 206, 207, 208, 209, 210, 211, 212,
       213, 214, 215, 216, 217, 218, 219, 220, 221, 222, 223, 224>>, <<0, 0,
       0, 1>>>>
       :> <<215, 4, 180, 51, 117, 50, 36, 47, 236, 27, 235, 33, 4, 15, 52,
          214, 16, 134, 32, 78, 143, 16, 142, 221, 162, 165, 229, 157, 151,
          76, 221, 64>>
    @@ <<<<>>, <<>>, <<0, 0, 0, 10000>>>>
       :> <<13, 96, 198, 149, 247, 233, 93, 180, 249, 85, 127, 91, 36, 16,
          231, 123, 41, 104, 1, 168, 24, 189, 153, 255, 184, 211, 221, 73,
          114, 178, 140, 80>>
    @@ <<<<>>, <<17, 18, 19, 20, 21, 22, 23, 24, 25, 26, 27, 28, 29, 30, 31,
       32>>, <<0, 0, 0, 10000>>>>
       :> <<196, 237, 95, 252, 72, 14, 26, 29, 228, 88, 79, 42, 253, 244,
          72, 159, 179, 179, 77, 61, 225, 70, 83, 89, 4, 242, 1, 86, 253, 139,
          79, 43>>
    @@ <<<<>>, <<33, 34, 35, 36, 37, 38, 39, 40, 41, 42, 43, 44, 45, 46, 47,
       48>>, <<0, 0, 0, 10000>>>>
       :> <<204, 145, 157, 189, 209, 174, 219, 239, 15, 167, 66, 43, 67,
          83, 149, 149, 84, 244, 89, 38, 155, 27, 71, 38, 216, 18, 217, 38,
          110, 189, 14, 229>>
    @@ <<<<>>, <<161>>, <<0, 0, 0, 10000>>>>
       :> <<145, 141, 81, 73, 146, 200, 135, 135, 63, 21, 23, 234, 65, 124,
          202, 64, 5, 69, 119, 63, 65, 208, 170, 60, 168, 193, 195, 92, 100,
          24, 240, 237>>
    @@ <<<<>>, <<161, 162>>, <<0, 0, 0, 10000>>>>
       :> <<213, 71, 91, 182, 145, 187, 205, 170, 211, 68, 94, 146, 238,
          36, 134, 55, 188, 21, 240, 97, 239, 247, 4, 209, 114, 169, 49, 229,
          149, 136, 203, 161>>
    @@ <<<<>>, <<161, 162, 163>>, <<0, 0, 0, 10000>>>>
       :> <<184, 51, 103, 136, 103, 134, 250, 211, 247, 103, 236, 248, 10,
          162, 192, 108, 228, 250, 213, 124, 140, 134, 23, 190, 221, 209, 49,
          60, 218, 113, 238, 130>>
    @@ <<<<>>, <<161, 162, 163, 164>>, <<0, 0, 0, 10000>>>>
       :> <<109, 200, 64, 137, 107, 46, 136, 226, 200, 15, 72, 55, 210, 76,
          92, 126, 136, 137, 178, 159, 201, 170, 144, 121, 45, 9, 113, 213,
          96, 9, 68, 187>>
    @@ <<<<>>, <<161, 162, 163, 164, 165, 166, 167, 168, 169, 170, 171, 172,
       173, 174, 175, 176>>, <<0, 0, 0, 10000>>>>
       :> <<6, 10, 210, 147, 213, 51, 129, 78, 9, 140, 173, 163, 194, 187,
          96, 9, 234, 113, 224, 61, 65, 34, 236, 251, 34, 184, 133, 13, 178,
          213, 129, 18>>
    @@ <<<<>>, <<161, 162, 163, 164, 165, 166, 167, 168, 169, 170, 171, 172,
       173, 174, 175, 176, 177, 178, 179, 180, 181, 182, 183, 184, 185, 186,
       187, 188, 189, 190, 191, 192, 193, 194, 195, 196, 197, 198, 199, 200,
       201, 202, 203, 204, 205, 206, 207, 208, 209, 210, 211, 212, 213, 214,
       215, 216, 217, 218, 219, 220, 221, 222, 223, 224>>, <<0, 0, 0,
       10000>>>>
       :> <<193, 115, 60, 100, 139, 117, 32, 42, 111, 81, 70, 248, 48, 138,
          242, 66, 5, 120, 75, 65, 53, 75, 91, 156, 213, 128, 163, 81, 185,
          81, 119, 250>>
    @@ <<<<>>, <<161, 162, 163, 164, 165, 166, 167, 168, 169, 170, 171, 172,
       173, 174, 175, 176, 177, 178, 179, 180, 181, 182, 183, 184, 185, 186,
       187, 188, 189, 190, 191, 192, 193, 194, 195, 196, 197, 198, 199, 200,
       201, 202, 203, 204, 205, 206, 207, 208, 209, 210, 211, 212, 213, 214,
       215, 216, 217, 218, 219, 220, 221, 222, 223, 224, 225>>, <<0, 0, 0,
       10000>>>>
       :> <<20, 130, 124, 238, 69, 43, 65, 226, 175, 171, 233, 246, 112,
          120, 205, 69, 25, 30, 195, 5, 32, 82, 154, 250, 59, 250, 101, 215,
          7, 98, 27, 16>>
    @@ <<<<>>, <<162>>, <<0, 0, 0, 10000>>>>
       :> <<103, 254, 73, 121, 222, 188, 20, 123, 141, 14, 93, 22, 9, 157,
          192, 82, 144, 237, 50, 78, 9, 194, 166, 174, 68, 147, 45, 40, 80,
          212, 232, 213>>
    @@ <<<<>>, <<162, 162>>, <<0, 0, 0, 10000>>>>
       :> <<144, 243, 94, 28, 113, 237, 19, 179, 127, 60, 137, 118, 150,
          150, 216, 124, 52, 148, 238, 127, 211, 118, 139, 29, 113, 150, 250,
          245, 136, 94, 27, 179>>
    @@ <<<<>>, <<162, 162, 163>>, <<0, 0, 0, 10000>>>>
       :> <<250, 85, 50, 22, 22, 228, 65, 225, 143, 179, 32, 163, 88, 187,
          94, 44, 74, 117, 237, 105, 44, 58, 232, 14, 188, 16, 3, 75, 40, 107,
          116, 13>>
    @@ <<<<>>, <<162, 162, 163, 164>>, <<0, 0, 0, 10000>>>>
       :> <<150, 78, 135, 2, 43, 84, 150, 138, 245, 214, 130, 246, 12, 104,
          240, 182, 39, 112, 78, 28, 90, 184, 83, 189, 140, 88, 196, 6, 97,
          10, 134, 67>>
    @@ <<<<>>, <<162, 162, 163, 164, 165, 166, 167, 168, 169, 170, 171, 172,
       173, 174, 175, 176>>, <<0, 0, 0, 10000>>>>
       :> <<137, 84, 87, 149, 44, 167, 203, 7, 106, 5, 245, 252, 227, 219,
          22, 122, 246, 1, 202, 131, 212, 178, 190, 208, 222, 174, 12, 99,
          161, 48, 147, 8>>
    @@ <<<<>>, <<162, 162, 163, 164, 165, 166, 167, 168, 169, 170, 171, 172,
       173, 174, 175, 176, 177, 178, 179, 180, 181, 182, 183, 184, 185, 186,
       187, 188, 189, 190, 191, 192, 193, 194, 195, 196, 197, 198, 199, 200,
       201, 202, 203, 204, 205, 206, 207, 208, 209, 210, 211, 212, 213, 214,
       215, 216, 217, 218, 219, 220, 221, 222, 223, 224>>, <<0, 0, 0,
       10000>>>>
       :> <<155, 211, 143, 132, 100, 132, 252, 168, 21, 253, 204, 159, 19,
          22, 131, 235, 109, 198, 248, 85, 158, 11, 120, 36, 0, 107, 203, 245,
          133, 124, 223, 17>>
    @@ <<<<73, 110, 50, 69, 103, 121, 112, 116, 33>>, <<238, 36, 230, 189,
       82, 128, 91, 130, 96, 4, 188, 197, 251, 191, 50, 123>>, <<0, 0, 0,
       10000>>>>
       :> <<185, 137, 149, 42, 135, 224, 224, 73, 21, 56, 35, 34, 105, 15,
          233, 149, 163, 130, 157, 108, 141, 65, 194, 33, 119, 41, 198, 53,
          87, 160, 26, 165>>
    @@ <<<<82, 69, 100, 78, 117, 73, 108, 115, 65, 110, 121, 101, 106, 72,
       51>>, <<120, 70, 79, 105, 150, 244, 19, 28, 90, 19, 13, 3, 137, 77,
       143, 205>>, <<0, 0, 0, 10000>>>>
       :> <<33, 240, 229, 11, 67, 43, 175, 169, 180, 145, 247, 217, 89,
          248, 101, 172, 186, 16, 54, 31, 161, 203, 197, 198, 72, 243, 228,
          97, 183, 21, 121, 20>>
    @@ <<<<112>>, <<>>, <<0, 0, 0, 10000>>>>
       :> <<86, 246, 232, 105, 109, 180, 171, 124, 197, 121, 12, 186, 193,
          217, 104, 33, 236, 101, 167, 191, 69, 222, 19, 111, 116, 126, 7,
          183, 48, 206, 173, 118>>
    @@ <<<<112>>, <<17, 18, 19, 20, 21, 22, 23, 24, 25, 26, 27, 28, 29, 30,
       31, 32>>, <<0, 0, 0, 10000>>>>
       :> <<43, 75, 192, 209, 120, 54, 20, 175, 242, 154, 157, 167, 201,
          111, 46, 234, 253, 42, 232, 222, 34, 108, 122, 77, 81, 167, 190,
          206, 174, 43, 128, 125>>
    @@ <<<<112>>, <<33, 34, 35, 36, 37, 38, 39, 40, 41, 42, 43, 44, 45, 46,
       47, 48>>, <<0, 0, 0, 10000>>>>
       :> <<95, 23, 216, 86, 156, 145, 234, 23, 246, 27, 212, 188, 166,
          124, 221, 137, 91, 64, 177, 105, 240, 222, 237, 175, 36, 172, 100,
          237, 137, 250, 13, 4>>
    @@ <<<<112>>, <<161>>, <<0, 0, 0, 10000>>>>
       :> <<181, 83, 47, 102, 121, 196, 6, 181, 142, 206, 1, 49, 236, 222,
          182, 231, 146, 133, 46, 169, 244, 228, 153, 94, 176, 216, 155, 182,
          68, 109, 117, 194>>
    @@ <<<<112>>, <<161, 162>>, <<0, 0, 0, 10000>>>>
       :> <<127, 46, 226, 64, 134, 161, 100, 250, 199, 110, 20, 28, 29,
          132, 140, 247, 79, 168, 1, 125, 42, 239, 144, 208, 57, 156, 101,
          116, 92, 140, 32, 203>>
    @@ <<<<112>>, <<161, 162, 163>>, <<0, 0, 0, 10000>>>>
       :> <<181, 220, 141, 207, 244, 144, 142, 92, 210, 23, 83, 17, 200,
          23, 243, 73, 28, 185, 216, 109, 22, 71, 6, 186, 163, 33, 173, 131,
          166, 85, 184, 36>>
    @@ <<<<112>>, <<161, 162, 163, 164>>, <<0, 0, 0, 10000>>>>
       :> <<175, 37, 255, 242, 119, 22, 48, 152, 175, 96, 85, 141, 127,
          232, 192, 124, 211, 13, 8, 68, 107, 88, 216, 200, 215, 107, 21, 46,
          168, 58, 29, 138>>
    @@ <<<<112>>, <<161, 162, 163, 164, 165, 166, 167, 168, 169, 170, 171,
       172, 173, 174, 175, 176>>, <<0, 0, 0, 10000>>>>
       :> <<147, 65, 195, 41, 107, 243, 40, 191, 113, 156, 54, 169, 193,
          64, 82, 178, 189, 221, 248, 108, 230, 96, 2, 108, 111, 55, 52, 5,
          117, 163, 237, 38>>
    @@ <<<<112>>, <<161, 162, 163, 164, 165, 166, 167, 168, 169, 170, 171,
       172, 173, 174, 175, 176, 177, 178, 179, 180, 181, 182, 183, 184, 185,
       186, 187, 188, 189, 190, 191, 192, 193, 194, 195, 196, 197, 198, 199,
       200, 201, 202, 203, 204, 205, 206, 207, 208, 209, 210, 211, 212, 213,
       214, 215, 216, 217, 218, 219, 220, 221, 222, 223, 224>>, <<0, 0, 0,
       10000>>>>
       :> <<234, 1, 127, 218, 223, 65, 48, 78, 197, 224, 80, 201, 58, 229,
          105, 246, 165, 17, 131, 204, 166, 88, 237, 221, 50, 97, 226, 161,
          65, 208, 252, 161>>
    @@ <<<<112>>, <<161, 162, 163, 164, 165, 166, 167, 168, 169, 170, 171,
       172, 173, 174, 175, 176, 177, 178, 179, 180, 181, 182, 183, 184, 185,
       186, 187, 188, 189, 190, 191, 192, 193, 194, 195, 196, 197, 198, 199,
       200, 201, 202, 203, 204, 205, 206, 207, 208, 209, 210, 211, 212, 213,
       214, 215, 216, 217, 218, 219, 220, 221, 222, 223, 224, 225>>, <<0, 0,
       0, 10000>>>>
       :> <<178, 55, 228, 47, 101, 210, 27, 134, 9, 68, 207, 107, 223, 92,
          71, 250, 102, 86, 180, 119, 12, 209, 119, 223, 226, 136, 8, 190, 80,
          234, 79, 150>>
    @@ <<<<112>>, <<162>>, <<0, 0, 0, 10000>>>>
       :> <<145, 121, 3, 60, 133, 137, 48, 103, 178, 174, 2, 249, 75, 75,
          225, 147, 142, 201, 179, 151, 26, 149, 255, 229, 10, 203, 234, 204,
          38, 3, 36, 232>>
    @@ <<<<112>>, <<162, 162>>, <<0, 0, 0, 10000>>>>
       :> <<62, 217, 9, 62, 126, 146, 125, 223, 159, 113, 82, 205, 112, 76,
          215, 4, 159, 5, 223, 62, 188, 217, 92, 112, 240, 231, 87, 1, 112,
          15, 117, 230>>
    @@ <<<<112>>, <<162, 162, 163>>, <<0, 0, 0, 10000>>>>
       :> <<204, 237, 82, 141, 9, 18, 27, 235, 134, 25, 230, 240, 169, 132,
          43, 231, 44, 212, 49, 222, 181, 193, 140, 7, 37, 126, 176, 38, 23,
          144, 5, 51>>
    @@ <<<<112>>, <<162, 162, 163, 164>>, <<0, 0, 0, 10000>>>>
       :> <<56, 231, 242, 48, 144, 224, 198, 248, 46, 19, 109, 249, 116,
          165, 35, 155, 151, 38, 110, 65, 98, 7, 154, 146, 93, 63, 97, 78,
          234, 110, 246, 241>>
    @@ <<<<112>>, <<162, 162, 163, 164, 165, 166, 167, 168, 169, 170, 171,
       172, 173, 174, 175, 176>>, <<0, 0, 0, 10000>>>>
       :> <<199, 155, 50, 156, 200, 244, 217, 181, 149, 4, 183, 94, 54, 21,
          243, 205, 255, 90, 170, 24, 55, 215, 160, 55, 81, 15, 151, 248, 224,
          40, 222, 224>>
    @@ <<<<112>>, <<162, 162, 163, 164, 165, 166, 167, 168, 169, 170, 171,
       172, 173, 174, 175, 176, 177, 178, 179, 180, 181, 182, 183, 184, 185,
       186, 187, 188, 189, 190, 191, 192, 193, 194, 195, 196, 197, 198, 199,
       200, 201, 202, 203, 204, 205, 206, 207, 208, 209, 210, 211, 212, 213,
       214, 215, 216, 217, 218, 219, 220, 221, 222, 223, 224>>, <<0, 0, 0,
       10000>>>>
       :> <<197, 205, 215, 184, 98, 156, 129, 24, 242, 49, 11, 184, 194,
          250, 27, 30, 212, 191, 80, 94, 25, 98, 99, 162, 255, 165, 216, 185,
          157, 179, 98, 64>>
    @@ <<<<112, 112>>, <<>>, <<0, 0, 0, 10000>>>>
       :> <<220, 194, 43, 180, 248, 244, 165, 231, 185, 148, 231, 199, 58,
          143, 224, 24, 13, 230, 214, 11, 142, 185, 79, 240, 6, 202, 98, 172,
          119, 51, 95, 213>>
    @@ <<<<112, 112>>, <<17, 18, 19, 20, 21, 22, 23, 24, 25, 26, 27, 28, 29,
       30, 31, 32>>, <<0, 0, 0, 10000>>>>
       :> <<20, 22, 162, 51, 200, 13, 76, 117, 194, 167, 252, 241, 124,
          123, 142, 183, 166, 23, 236, 203, 192, 223, 38, 147, 201, 133, 27,
          129, 170, 73, 224, 99>>
    @@ <<<<112, 112>>, <<33, 34, 35, 36, 37, 38, 39, 40, 41, 42, 43, 44, 45,
       46, 47, 48>>, <<0, 0, 0, 10000>>>>
       :> <<92, 140, 110, 20, 121, 108, 218, 241, 221, 47, 124, 201, 164,
          166, 73, 79, 10, 70, 78, 88, 182, 92, 192, 101, 233, 213, 240, 243,
          112, 148, 43, 112>>
    @@ <<<<112, 112>>, <<161>>, <<0, 0, 0, 10000>>>>
       :> <<141, 66, 136, 8, 101, 51, 174, 153, 251, 175, 181, 36, 108, 42,
          24, 148, 132, 143, 31, 0, 166, 180, 23, 248, 240, 148, 144, 163,
          186, 245, 245, 152>>
    @@ <<<<112, 112>>, <<161, 162>>, <<0, 0, 0, 10000>>>>
       :> <<51, 79, 25, 136, 68, 198, 151, 119, 15, 195, 182, 70, 141, 111,
          128, 97, 92, 192, 214, 91, 39, 189, 72, 140, 72, 0, 93, 89, 7, 119,
          85, 189>>
    @@ <<<<112, 112>>, <<161, 162, 163>>, <<0, 0, 0, 10000>>>>
       :> <<197, 15, 128, 146, 200, 64, 202, 108, 2, 69, 236, 194, 129,
          164, 179, 171, 169, 230, 87, 126, 37, 137, 103, 186, 39, 212, 33,
          97, 209, 234, 165, 90>>
    @@ <<<<112, 112>>, <<161, 162, 163, 164>>, <<0, 0, 0, 10000>>>>
       :> <<31, 11, 114, 39, 200, 43, 214, 162, 132, 151, 2, 163, 38, 170,
          229, 116, 69, 5, 133, 179, 177, 99, 216, 50, 60, 6, 167, 13, 43, 73,
          50, 222>>
    @@ <<<<112, 112>>, <<161, 162, 163, 164, 165, 166, 167, 168, 169, 170,
       171, 172, 173, 174, 175, 176>>, <<0, 0, 0, 10000>>>>
       :> <<46, 13, 192, 100, 57, 25, 205, 216, 133, 242, 38, 46, 116, 30,
          82, 180, 129, 99, 241, 73, 116, 40, 142, 110, 124, 173, 223, 7, 133,
          220, 33, 53>>
    @@ <<<<112, 112>>, <<161, 162, 163, 164, 165, 166, 167, 168, 169, 170,
       171, 172, 173, 174, 175, 176, 177, 178, 179, 180, 181, 182, 183, 184,
       185, 186, 187, 188, 189, 190, 191, 192, 193, 194, 195, 196, 197, 198,
       199, 200, 201, 202, 203, 204, 205, 206, 207, 208, 209, 210, 211, 212,
       213, 214, 215, 216, 217, 218, 219, 220, 221, 222, 223, 224>>, <<0, 0,
       0, 10000>>>>
       :> <<249, 195, 200, 197, 159, 49, 199, 88, 224, 135, 233, 0, 248,
          212, 222, 90, 78, 151, 182, 188, 186, 254, 65, 91, 31, 4, 217, 238,
          119, 240, 114, 49>>
    @@ <<<<112, 112>>, <<161, 162, 163, 164, 165, 166, 167, 168, 169, 170,
       171, 172, 173, 174, 175, 176, 177, 178, 179, 180, 181, 182, 183, 184,
       185, 186, 187, 188, 189, 190, 191, 192, 193, 194, 195, 196, 197, 198,
       199, 200, 201, 202, 203, 204, 205, 206, 207, 208, 209, 210, 211, 212,
       213, 214, 215, 216, 217, 218, 219, 220, 221, 222, 223, 224, 225>>,
       <<0, 0, 0, 10000>>>>
       :> <<126, 138, 255, 169, 188, 162, 61, 43, 127, 180, 171, 241, 121,
          144, 38, 193, 69, 31, 192, 155, 27, 44, 95, 143, 89, 40, 180, 136,
          94, 202, 248, 149>>
    @@ <<<<112, 112>>, <<162>>, <<0, 0, 0, 10000>>>>
       :> <<134, 126, 124, 65, 221, 47, 164, 182, 240, 162, 7, 78, 94, 204,
          222, 155, 131, 40, 91, 57, 171, 183, 178, 216, 130, 41, 212, 139,
          161, 224, 145, 135>>
    @@ <<<<112, 112>>, <<162, 162>>, <<0, 0, 0, 10000>>>>
       :> <<167, 253, 6, 154, 67, 197, 170, 41, 84, 61, 46, 94, 0, 152, 54,
          156, 184, 239, 252, 84, 228, 224, 238, 194, 4, 189, 179, 47, 60,
          170, 241, 159>>
    @@ <<<<112, 112>>, <<162, 162, 163>>, <<0, 0, 0, 10000>>>>
       :> <<6, 76, 254, 223, 2, 18, 152, 180, 181, 247, 247, 62, 166, 42,
          152, 24, 56, 88, 227, 146, 41, 70, 193, 30, 75, 132, 217, 32, 209,
          123, 38, 153>>
    @@ <<<<112, 112>>, <<162, 162, 163, 164>>, <<0, 0, 0, 10000>>>>
       :> <<40, 137, 61, 157, 90, 176, 221, 139, 146, 141, 144, 240, 92,
          197, 138, 14, 153, 231, 117, 85, 84, 57, 26, 101, 88, 28, 91, 38,
          190, 87, 14, 150>>
    @@ <<<<112, 112>>, <<162, 162, 163, 164, 165, 166, 167, 168, 169, 170,
       171, 172, 173, 174, 175, 176>>, <<0, 0, 0, 10000>>>>
       :> <<59, 58, 50, 89, 181, 99, 194, 93, 157, 172, 65, 225, 65, 136,
          129, 13, 105, 25, 251, 46, 81, 107, 97, 146, 0, 182, 45, 114, 150,
          194, 250, 121>>
    @@ <<<<112, 112>>, <<162, 162, 163, 164, 165, 166, 167, 168, 169, 170,
       171, 172, 173, 174, 175, 176, 177, 178, 179, 180, 181, 182, 183, 184,
       185, 186, 187, 188, 189, 190, 191, 192, 193, 194, 195, 196, 197, 198,
       199, 200, 201, 202, 203, 204, 205, 206, 207, 208, 209, 210, 211, 212,
       213, 214, 215, 216, 217, 218, 219, 220, 221, 222, 223, 224>>, <<0, 0,
       0, 10000>>>>
       :> <<247, 56, 237, 37, 237, 63, 88, 43, 61, 251, 175, 40, 143, 205,
          1, 56, 18, 97, 46, 133, 186, 231, 12, 189, 80, 103, 168, 181, 129,
          41, 85, 186>>
    @@ <<<<>>, <<>>, <<0, 0, 1, 34464>>>>
       :> <<100, 168, 104, 212, 178, 58, 246, 150, 211, 115, 77, 11, 129,
          77, 4, 205, 209, 172, 40, 1, 40, 233, 118, 83, 160, 95, 50, 180,
          156, 19, 162, 154>>
    @@ <<<<>>, <<17, 18, 19, 20, 21, 22, 23, 24, 25, 26, 27, 28, 29, 30, 31,
       32>>, <<0, 0, 1, 34464>>>>
       :> <<23, 144, 73, 66, 130, 36, 14, 254, 34, 110, 25, 231, 247, 202,
          90, 146, 239, 177, 29, 105, 163, 135, 241, 19, 52, 21, 30, 231, 18,
          99, 153, 55>>
    @@ <<<<>>, <<33, 34, 35, 36, 37, 38, 39, 40, 41, 42, 43, 44, 45, 46, 47,
       48>>, <<0, 0, 1, 34464>>>>
       :> <<186, 163, 74, 223, 179, 6, 240, 119, 178, 209, 235, 46, 106,
          80, 5, 90, 74, 163, 55, 53, 74, 169, 176, 235, 61, 66, 39, 213, 51,
          123, 87, 57>>
    @@ <<<<>>, <<161>>, <<0, 0, 1, 34464>>>>
       :> <<230, 56, 134, 141, 153, 103, 201, 166, 196, 91, 252, 246, 229,
          187, 122, 26, 48, 236, 185, 148, 22, 1, 129, 232, 177, 86, 245, 220,
          120, 11, 203, 15>>
    @@ <<<<>>, <<161, 162>>, <<0, 0, 1, 34464>>>>
       :> <<161, 198, 88, 85, 253, 27, 64, 245, 191, 83, 132, 254, 178, 46,
          229, 148, 254, 230, 213, 184, 58, 154, 227, 61, 167, 54, 254, 142,
          91, 136, 170, 200>>
    @@ <<<<>>, <<161, 162, 163>>, <<0, 0, 1, 34464>>>>
       :> <<5, 181, 90, 242, 47, 108, 189, 98, 40, 172, 201, 247, 119, 224,
          29, 186, 166, 24, 254, 145, 73, 212, 226, 53, 234, 189, 109, 10,
          153, 184, 245, 57>>
    @@ <<<<>>, <<161, 162, 163, 164>>, <<0, 0, 1, 34464>>>>
       :> <<227, 239, 239, 125, 4, 225, 37, 164, 193, 231, 164, 213, 86, 1,
          202, 96, 213, 168, 252, 68, 4, 160, 1, 10, 58, 221, 64, 187, 22, 75,
          28, 113>>
    @@ <<<<>>, <<161, 162, 163, 164, 165, 166, 167, 168, 169, 170, 171, 172,
       173, 174, 175, 176>>, <<0, 0, 1, 34464>>>>
       :> <<63, 186, 26, 107, 139, 41, 221, 162, 14, 237, 190, 33, 11, 81,
          218, 60, 82, 70, 89, 203, 60, 45, 142, 92, 211, 102, 211, 14, 44,
          44, 169, 6>>
    @@ <<<<>>, <<161, 162, 163, 164, 165, 166, 167, 168, 169, 170, 171, 172,
       173, 174, 175, 176, 177, 178, 179, 180, 181, 182, 183, 184, 185, 186,
       187, 188, 189, 190, 191, 192, 193, 194, 195, 196, 197, 198, 199, 200,
       201, 202, 203, 204, 205, 206, 207, 208, 209, 210, 211, 212, 213, 214,
       215, 216, 217, 218, 219, 220, 221, 222, 223, 224>>, <<0, 0, 1,
       34464>>>>
       :> <<71, 175, 225, 66, 169, 141, 93, 198, 28, 207, 208, 83, 222,
          254, 38, 254, 72, 61, 124, 80, 165, 205, 104, 203, 131, 196, 159, 2,
          192, 79, 181, 145>>
    @@ <<<<>>, <<161, 162, 163, 164, 165, 166, 167, 168, 169, 170, 171, 172,
       173, 174, 175, 176, 177, 178, 179, 180, 181, 182, 183, 184, 185, 186,
       187, 188, 189, 190, 191, 192, 193, 194, 195, 196, 197, 198, 199, 200,
       201, 202, 203, 204, 205, 206, 207, 208, 209, 210, 211, 212, 213, 214,
       215, 216, 217, 218, 219, 220, 221, 222, 223, 224, 225>>, <<0, 0, 1,
       34464>>>>
       :> <<179, 101, 61, 21, 72, 62, 169, 101, 201, 70, 43, 191, 89, 162,
          185, 207, 159, 240, 138, 224, 244, 138, 112, 26, 13, 233, 34, 126,
          171, 141, 154, 96>>
    @@ <<<<>>, <<162>>, <<0, 0, 1, 34464>>>>
       :> <<131, 66, 181, 192, 70, 95, 148, 68, 224, 89, 166, 198, 57, 184,
          246, 149, 139, 154, 57, 63, 110, 54, 179, 67, 147, 41, 22, 84, 79,
          50, 122, 154>>
    @@ <<<<>>, <<162, 162>>, <<0, 0, 1, 34464>>>>
       :> <<80, 212, 161, 250, 53, 21, 69, 82, 240, 195, 112, 113, 243,
          155, 6, 192, 33, 11, 104, 73, 67, 226, 75, 119, 58, 30, 68, 136, 4,
          225, 109, 37>>
    @@ <<<<>>, <<162, 162, 163>>, <<0, 0, 1, 34464>>>>
       :> <<66, 179, 29, 194, 66, 68, 93, 110, 171, 205, 103, 192, 80, 19,
          190, 80, 117, 217, 44, 255, 74, 151, 107, 73, 26, 76, 151, 230, 122,
          115, 144, 203>>
    @@ <<<<>>, <<162, 162, 163, 164>>, <<0, 0, 1, 34464>>>>
       :> <<112, 13, 209, 139, 6, 97, 157, 56, 132, 36, 239, 117, 87, 88,
          251, 63, 137, 85, 222, 133, 62, 39, 139, 136, 201, 217, 178, 42,
          199, 84, 83, 107>>
    @@ <<<<>>, <<162, 162, 163, 164, 165, 166, 167, 168, 169, 170, 171, 172,
       173, 174, 175, 176>>, <<0, 0, 1, 34464>>>>
       :> <<113, 154, 104, 250, 176, 76, 199, 178, 127, 165, 191, 229, 122,
          95, 125, 107, 211, 12, 232, 134, 114, 222, 11, 203, 177, 24, 31,
          101, 56, 93, 215, 169>>
    @@ <<<<>>, <<162, 162, 163, 164, 165, 166, 167, 168, 169, 170, 171, 172,
       173, 174, 175, 176, 177, 178, 179, 180, 181, 182, 183, 184, 185, 186,
       187, 188, 189, 190, 191, 192, 193, 194, 195, 196, 197, 198, 199, 200,
       201, 202, 203, 204, 205, 206, 207, 208, 209, 210, 211, 212, 213, 214,
       215, 216, 217, 218, 219, 220, 221, 222, 223, 224>>, <<0, 0, 1,
       34464>>>>
       :> <<205, 224, 91, 133, 3, 100, 10, 87, 37, 242, 179, 169, 251, 193,
          120, 7, 22, 239, 209, 190, 182, 28, 72, 48, 236, 153, 144, 139, 87,
          247, 242, 249>>
    @@ <<<<112>>, <<>>, <<0, 0, 1, 34464>>>>
       :> <<143, 12, 64, 222, 148, 131, 60, 172, 185, 220, 73, 243, 102,
          122, 39, 123, 68, 190, 20, 137, 137, 55, 121, 248, 95, 91, 137, 34,
          130, 8, 134, 31>>
    @@ <<<<112>>, <<17, 18, 19, 20, 21, 22, 23, 24, 25, 26, 27, 28, 29, 30,
       31, 32>>, <<0, 0, 1, 34464>>>>
       :> <<49, 173, 155, 79, 31, 83, 176, 80, 208, 7, 180, 132, 220, 101,
          85, 118, 118, 60, 92, 8, 73, 239, 102, 235, 3, 129, 230, 24, 220,
          206, 235, 113>>
    @@ <<<<112>>, <<33, 34, 35, 36, 37, 38, 39, 40, 41, 42, 43, 44, 45, 46,
       47, 48>>, <<0, 0, 1, 34464>>>>
       :> <<222, 41, 6, 71, 120, 21, 222, 101, 150, 17, 132, 190, 201, 161,
          7, 24, 97, 179, 72, 31, 7, 53, 183, 106, 136, 87, 164, 10, 48, 58,
          152, 21>>
    @@ <<<<112>>, <<161>>, <<0, 0, 1, 34464>>>>
       :> <<123, 126, 72, 136, 31, 19, 110, 11, 219, 136, 146, 206, 214,
          245, 218, 57, 218, 241, 102, 251, 129, 53, 143, 20, 170, 233, 176,
          214, 44, 213, 80, 219>>
    @@ <<<<112>>, <<161, 162>>, <<0, 0, 1, 34464>>>>
       :> <<123, 172, 8, 135, 7, 26, 59, 249, 172, 15, 32, 203, 79, 172,
          23, 93, 231, 44, 208, 30, 197, 195, 221, 216, 193, 89, 126, 168,
          141, 37, 110, 48>>
    @@ <<<<112>>, <<161, 162, 163>>, <<0, 0, 1, 34464>>>>
       :> <<184, 87, 173, 177, 89, 14, 140, 213, 187, 250, 201, 141, 131,
          102, 144, 147, 37, 26, 115, 26, 177, 14, 252, 21, 215, 79, 204, 218,
          95, 88, 126, 21>>
    @@ <<<<112>>, <<161, 162, 163, 164>>, <<0, 0, 1, 34464>>>>
       :> <<71, 191, 113, 5, 141, 158, 51, 252, 212, 55, 158, 128, 73, 173,
          78, 245, 230, 110, 186, 217, 130, 221, 1, 68, 56, 153, 182, 165,
          164, 227, 176, 111>>
    @@ <<<<112>>, <<161, 162, 163, 164, 165, 166, 167, 168, 169, 170, 171,
       172, 173, 174, 175, 176>>, <<0, 0, 1, 34464>>>>
       :> <<73, 82, 223, 100, 157, 107, 159, 177, 90, 30, 131, 77, 207, 13,
          185, 116, 189, 177, 82, 2, 199, 218, 164, 67, 221, 243, 174, 195,
          33, 203, 34, 89>>
    @@ <<<<112>>, <<161, 162, 163, 164, 165, 166, 167, 168, 169, 170, 171,
       172, 173, 174, 175, 176, 177, 178, 179, 180, 181, 182, 183, 184, 185,
       186, 187, 188, 189, 190, 191, 192, 193, 194, 195, 196, 197, 198, 199,
       200, 201, 202, 203, 204, 205, 206, 207, 208, 209, 210, 211, 212, 213,
       214, 215, 216, 217, 218, 219, 220, 221, 222, 223, 224>>, <<0, 0, 1,
       34464>>>>
       :> <<92, 124, 222, 159, 135, 128, 171, 44, 18, 99, 202, 196, 33, 11,
          190, 8, 82, 39, 250, 203, 116, 87, 145, 110, 181, 154, 204, 55, 115,
          80, 127, 103>>
    @@ <<<<112>>, <<161, 162, 163, 164, 165, 166, 167, 168, 169, 170, 171,
       172, 173, 174, 175, 176, 177, 178, 179, 180, 181, 182, 183, 184, 185,
       186, 187, 188, 189, 190, 191, 192, 193, 194, 195, 196, 197, 198, 199,
       200, 201, 202, 203, 204, 205, 206, 207, 208, 209, 210, 211, 212, 213,
       214, 215, 216, 217, 218, 219, 220, 221, 222, 223, 224, 225>>, <<0, 0,
       1, 34464>>>>
       :> <<204, 95, 10, 48, 91, 202, 88, 253, 25, 29, 78, 191, 216, 209,
          135, 161, 48, 140, 83, 203, 164, 34, 249, 139, 83, 135, 237, 47,
          114, 221, 40, 100>>
    @@ <<<<112>>, <<162>>, <<0, 0, 1, 34464>>>>
       :> <<131, 102, 72, 204, 180, 191, 182, 244, 225, 210, 36, 218, 18,
          91, 16, 164, 106, 25, 141, 183, 107, 179, 196, 50, 223, 146, 21, 21,
          174, 105, 72, 26>>
    @@ <<<<112>>, <<162, 162>>, <<0, 0, 1, 34464>>>>
       :> <<60, 231, 116, 64, 67, 136, 13, 42, 59, 173, 80, 126, 99, 219,
          96, 123, 32, 182, 162, 193, 144, 107, 245, 42, 170, 236, 144, 166,
          22, 224, 219, 157>>
    @@ <<<<112>>, <<162, 162, 163>>, <<0, 0, 1, 34464>>>>
       :> <<18, 151, 154, 237, 216, 245, 236, 87, 138, 180, 251, 133, 96,
          0, 93, 232, 100, 190, 179, 38, 65, 227, 86, 158, 114, 0, 109, 218,
          69, 249, 242, 96>>
    @@ <<<<112>>, <<162, 162, 163, 164>>, <<0, 0, 1, 34464>>>>
       :> <<120, 59, 41, 66, 48, 16, 160, 29, 184, 41, 0, 25, 42, 137, 8,
          247, 223, 220, 96, 123, 131, 95, 88, 244, 98, 146, 213, 132, 252,
          175, 39, 223>>
    @@ <<<<112>>, <<162, 162, 163, 164, 165, 166, 167, 168, 169, 170, 171,
       172, 173, 174, 175, 176>>, <<0, 0, 1, 34464>>>>
       :> <<219, 21, 253, 48, 241, 153, 44, 198, 90, 90, 214, 17, 236, 55,
          218, 96, 145, 78, 213, 177, 170, 47, 141, 81, 15, 11, 126, 201, 37,
          91, 223, 84>>
    @@ <<<<112>>, <<162, 162, 163, 164, 165, 166, 167, 168, 169, 170, 171,
       172, 173, 174, 175, 176, 177, 178, 179, 180, 181, 182, 183, 184, 185,
       186, 187, 188, 189, 190, 191, 192, 193, 194, 195, 196, 197, 198, 199,
       200, 201, 202, 203, 204, 205, 206, 207, 208, 209, 210, 211, 212, 213,
       214, 215, 216, 217, 218, 219, 220, 221, 222, 223, 224>>, <<0, 0, 1,
       34464>>>>
       :> <<188, 243, 91, 58, 237, 32, 172, 113, 193, 203, 93, 200, 14, 10,
          5, 74, 223, 17, 5, 213, 17, 7, 17, 154, 157, 34, 21, 200, 183, 231,
          145, 233>>
    @@ <<<<112, 112>>, <<>>, <<0, 0, 1, 34464>>>>
       :> <<52, 84, 30, 179, 21, 220, 55, 83, 164, 84, 36, 84, 136, 45, 46,
          87, 72, 193, 58, 254, 124, 175, 144, 87, 224, 251, 31, 30, 39, 106,
          73, 88>>
    @@ <<<<112, 112>>, <<17, 18, 19, 20, 21, 22, 23, 24, 25, 26, 27, 28, 29,
       30, 31, 32>>, <<0, 0, 1, 34464>>>>
       :> <<0, 123, 199, 7, 51, 86, 62, 148, 163, 252, 24, 218, 170, 249,
          183, 245, 182, 227, 37, 155, 57, 93, 219, 2, 237, 170, 243, 86, 193,
          133, 101, 51>>
    @@ <<<<112, 112>>, <<33, 34, 35, 36, 37, 38, 39, 40, 41, 42, 43, 44, 45,
       46, 47, 48>>, <<0, 0, 1, 34464>>>>
       :> <<126, 55, 165, 184, 87, 151, 197, 165, 2, 150, 86, 223, 184,
          252, 228, 111, 202, 177, 114, 167, 83, 246, 124, 216, 112, 34, 78,
          215, 228, 234, 182, 118>>
    @@ <<<<112, 112>>, <<161>>, <<0, 0, 1, 34464>>>>
       :> <<33, 47, 242, 218, 209, 1, 143, 153, 147, 142, 251, 47, 208, 6,
          219, 89, 193, 172, 214, 201, 7, 77, 183, 32, 237, 94, 61, 40, 109,
          141, 175, 101>>
    @@ <<<<112, 112>>, <<161, 162>>, <<0, 0, 1, 34464>>>>
       :> <<205, 90, 67, 122, 27, 199, 80, 35, 179, 91, 221, 182, 166, 162,
          163, 172, 254, 132, 42, 200, 78, 212, 199, 140, 93, 223, 163, 238,
          52, 173, 103, 148>>
    @@ <<<<112, 112>>, <<161, 162, 163>>, <<0, 0, 1, 34464>>>>
       :> <<253, 166, 85, 68, 207, 148, 150, 165, 194, 59, 117, 72, 148,
          156, 220, 44, 114, 216, 247, 40, 4, 209, 206, 117, 97, 46, 157, 45,
          67, 90, 32, 182>>
    @@ <<<<112, 112>>, <<161, 162, 163, 164>>, <<0, 0, 1, 34464>>>>
       :> <<31, 190, 191, 147, 232, 88, 252, 12, 204, 149, 157, 57, 151,
          80, 241, 243, 6, 62, 121, 162, 85, 150, 90, 57, 150, 45, 99, 153,
          144, 9, 147, 218>>
    @@ <<<<112, 112>>, <<161, 162, 163, 164, 165, 166, 167, 168, 169, 170,
       171, 172, 173, 174, 175, 176>>, <<0, 0, 1, 34464>>>>
       :> <<106, 49, 56, 99, 59, 140, 240, 243, 139, 177, 51, 11, 160, 126,
          62, 140, 155, 127, 241, 203, 3, 204, 122, 31, 227, 217, 32, 247, 39,
          103, 228, 16>>
    @@ <<<<112, 112>>, <<161, 162, 163, 164, 165, 166, 167, 168, 169, 170,
       171, 172, 173, 174, 175, 176, 177, 178, 179, 180, 181, 182, 183, 184,
       185, 186, 187, 188, 189, 190, 191, 192, 193, 194, 195, 196, 197, 198,
       199, 200, 201, 202, 203, 204, 205, 206, 207, 208, 209, 210, 211, 212,
       213, 214, 215, 216, 217, 218, 219, 220, 221, 222, 223, 224>>, <<0, 0,
       1, 34464>>>>
       :> <<86, 165, 78, 76, 221, 117, 199, 56, 85, 25, 167, 212, 92, 120,
          57, 83, 143, 119, 171, 233, 60, 202, 200, 184, 121, 41, 244, 46,
          133, 140, 93, 162>>
    @@ <<<<112, 112>>, <<161, 162, 163, 164, 165, 166, 167, 168, 169, 170,
       171, 172, 173, 174, 175, 176, 177, 178, 179, 180, 181, 182, 183, 184,
       185, 186, 187, 188, 189, 190, 191, 192, 193, 194, 195, 196, 197, 198,
       199, 200, 201, 202, 203, 204, 205, 206, 207, 208, 209, 210, 211, 212,
       213, 214, 215, 216, 217, 218, 219, 220, 221, 222, 223, 224, 225>>,
       <<0, 0, 1, 34464>>>>
       :> <<96, 54, 245, 120, 196, 199, 57, 114, 81, 65, 175, 10, 162, 33,
          66, 11, 93, 240, 87, 187, 66, 19, 63, 237, 160, 250, 41, 152, 237,
          115, 90, 146>>
    @@ <<<<112, 112>>, <<162>>, <<0, 0, 1, 34464>>>>
       :> <<99, 43, 161, 148, 181, 240, 227, 36, 221, 58, 204, 229, 20,
          107, 22, 249, 114, 82, 39, 159, 232, 135, 140, 181, 137, 92, 220,
          206, 133, 104, 221, 207>>
    @@ <<<<112, 112>>, <<162, 162>>, <<0, 0, 1, 34464>>>>
       :> <<76, 236, 239, 41, 204, 61, 140, 47, 216, 141, 98, 116, 190, 62,
          224, 148, 106, 180, 76, 76, 10, 62, 175, 112, 14, 124, 56, 230, 229,
          73, 192, 98>>
    @@ <<<<112, 112>>, <<162, 162, 163>>, <<0, 0, 1, 34464>>>>
       :> <<197, 174, 188, 151, 236, 143, 46, 17, 99, 17, 195, 176, 135,
          212, 246, 24, 225, 226, 74, 65, 158, 201, 194, 55, 30, 153, 249,
          170, 17, 213, 138, 250>>
    @@ <<<<112, 112>>, <<162, 162, 163, 164>>, <<0, 0, 1, 34464>>>>
       :> <<91, 59, 187, 32, 216, 91, 156, 56, 189, 114, 166, 141, 35, 113,
          82, 245, 80, 223, 199, 157, 211, 189, 218, 52, 0, 5, 95, 236, 230,
          123, 234, 210>>
    @@ <<<<112, 112>>, <<162, 162, 163, 164, 165, 166, 167, 168, 169, 170,
       171, 172, 173, 174, 175, 176>>, <<0, 0, 1, 34464>>>>
       :> <<125, 106, 105, 196, 135, 246, 252, 186, 7, 79, 27, 124, 115,
          12, 89, 143, 144, 168, 145, 72, 11, 198, 191, 60, 170, 147, 9, 23,
          128, 15, 209, 114>>
    @@ <<<<112, 112>>, <<162, 162, 163, 164, 165, 166, 167, 168, 169, 170,
       171, 172, 173, 174, 175, 176, 177, 178, 179, 180, 181, 182, 183, 184,
       185, 186, 187, 188, 189, 190, 191, 192, 193, 194, 195, 196, 197, 198,
       199, 200, 201, 202, 203, 204, 205, 206, 207, 208, 209, 210, 211, 212,
       213, 214, 215, 216, 217, 218, 219, 220, 221, 222, 223, 224>>, <<0, 0,
       1, 34464>>>>
       :> <<88, 46, 247, 170, 99, 27, 168, 217, 89, 49, 89, 238, 62, 148,
          35, 34, 166, 253, 8, 1, 62, 166, 104, 211, 221, 214, 2, 40, 252,
          109, 18, 148>>
    @@ <<<<>>, <<>>, <<0, 0, 1, 34465>>>>
       :> <<233, 58, 236, 24, 88, 101, 168, 231, 181, 244, 73, 203, 222,
          178, 51, 151, 77, 2, 224, 238, 252, 235, 249, 187, 232, 64, 122,
          100, 180, 73, 165, 113>>
    @@ <<<<>>, <<17, 18, 19, 20, 21, 22, 23, 24, 25, 26, 27, 28, 29, 30, 31,
       32>>, <<0, 0, 1, 34465>>>>
       :> <<57, 17, 85, 40, 34, 43, 214, 158, 190, 187, 173, 126, 76, 249,
          152, 143, 174, 17, 133, 66, 17, 115, 16, 162, 164, 24, 45, 23, 96,
          31, 226, 2>>
    @@ <<<<>>, <<33, 34, 35, 36, 37, 38, 39, 40, 41, 42, 43, 44, 45, 46, 47,
       48>>, <<0, 0, 1, 34465>>>>
       :> <<117, 159, 100, 225, 22, 70, 19, 130, 117, 232, 126, 81, 156,
          111, 192, 172, 50, 80, 221, 98, 96, 110, 103, 129, 80, 16, 63, 235,
          162, 245, 166, 239>>
    @@ <<<<>>, <<161>>, <<0, 0, 1, 34465>>>>
       :> <<216, 145, 221, 217, 200, 37, 92, 66, 194, 168, 200, 191, 188,
          193, 6, 72, 198, 235, 105, 192, 61, 129, 64, 87, 46, 58, 132, 240,
          102, 183, 18, 94>>
    @@ <<<<>>, <<161, 162>>, <<0, 0, 1, 34465>>>>
       :> <<13, 52, 128, 26, 17, 217, 22, 83, 242, 235, 154, 147, 98, 54,
          168, 5, 144, 12, 208, 0, 228, 100, 26, 102, 122, 128, 118, 118, 217,
          139, 74, 140>>
    @@ <<<<>>, <<161, 162, 163>>, <<0, 0, 1, 34465>>>>
       :> <<134, 46, 53, 7, 244, 8, 243, 88, 77, 130, 245, 228, 165, 6,
          127, 197, 249, 121, 218, 30, 86, 215, 4, 216, 213, 69, 197, 225,
          237, 56, 201, 131>>
    @@ <<<<>>, <<161, 162, 163, 164>>, <<0, 0, 1, 34465>>>>
       :> <<254, 249, 149, 186, 47, 64, 47, 111, 4, 232, 129, 139, 11, 124,
          49, 21, 234, 160, 251, 98, 75, 195, 5, 189, 71, 51, 121, 95, 255,
          252, 119, 52>>
    @@ <<<<>>, <<161, 162, 163, 164, 165, 166, 167, 168, 169, 170, 171, 172,
       173, 174, 175, 176>>, <<0, 0, 1, 34465>>>>
       :> <<84, 100, 193, 146, 21, 89, 167, 129, 224, 127, 197, 204, 189,
          151, 211, 162, 205, 47, 94, 252, 227, 125, 13, 61, 227, 0, 80, 112,
          109, 94, 206, 41>>
    @@ <<<<>>, <<161, 162, 163, 164, 165, 166, 167, 168, 169, 170, 171, 172,
       173, 174, 175, 176, 177, 178, 179, 180, 181, 182, 183, 184, 185, 186,
       187, 188, 189, 190, 191, 192, 193, 194, 195, 196, 197, 198, 199, 200,
       201, 202, 203, 204, 205, 206, 207, 208, 209, 210, 211, 212, 213, 214,
       215, 216, 217, 218, 219, 220, 221, 222, 223, 224>>, <<0, 0, 1,
       34465>>>>
       :> <<249, 56, 243, 106, 221, 185, 244, 218, 80, 176, 69, 209, 247,
          155, 19, 173, 166, 246, 110, 107, 83, 178, 73, 160, 195, 243, 43,
          34, 75, 122, 29, 179>>
    @@ <<<<>>, <<161, 162, 163, 164, 165, 166, 167, 168, 169, 170, 171, 172,
       173, 174, 175, 176, 177, 178, 179, 180, 181, 182, 183, 184, 185, 186,
       187, 188, 189, 190, 191, 192, 193, 194, 195, 196, 197, 198, 199, 200,
       201, 202, 203, 204, 205, 206, 207, 208, 209, 210, 211, 212, 213, 214,
       215, 216, 217, 218, 219, 220, 221, 222, 223, 224, 225>>, <<0, 0, 1,
       34465>>>>
       :> <<175, 53, 236, 180, 107, 13, 34, 182, 24, 193, 206, 164, 183,
          196, 47, 203, 28, 118, 102, 175, 64, 25, 20, 193, 10, 216, 156, 30,
          6, 52, 174, 188>>
    @@ <<<<>>, <<162>>, <<0, 0, 1, 34465>>>>
       :> <<191, 199, 148, 150, 87, 163, 83, 106, 91, 20, 178, 78, 241,
          185, 251, 107, 160, 214, 224, 36, 15, 192, 198, 111, 199, 121, 53,
          103, 197, 224, 251, 84>>
    @@ <<<<>>, <<162, 162>>, <<0, 0, 1, 34465>>>>
       :> <<71, 0, 122, 139, 183, 209, 43, 66, 63, 91, 52, 124, 182, 9,
          247, 67, 204, 171, 209, 18, 83, 246, 123, 66, 115, 246, 105, 105,
          178, 250, 195, 67>>
    @@ <<<<>>, <<162, 162, 163>>, <<0, 0, 1, 34465>>>>
       :> <<49, 250, 41, 191, 103, 213, 90, 135, 225, 186, 67, 28, 195,
          235, 121, 83, 243, 54, 136, 205, 232, 159, 200, 172, 71, 7, 51, 238,
          130, 81, 116, 84>>
    @@ <<<<>>, <<162, 162, 163, 164>>, <<0, 0, 1, 34465>>>>
       :> <<0, 139, 122, 178, 139, 24, 99, 231, 96, 25, 201, 169, 30, 183,
          191, 37, 254, 167, 189, 240, 238, 234, 166, 204, 123, 40, 86, 41,
          64, 250, 132, 184>>
    @@ <<<<>>, <<162, 162, 163, 164, 165, 166, 167, 168, 169, 170, 171, 172,
       173, 174, 175, 176>>, <<0, 0, 1, 34465>>>>
       :> <<62, 217, 184, 71, 1, 84, 12, 183, 230, 137, 123, 99, 134, 171,
          3, 94, 171, 234, 248, 247, 129, 251, 69, 127, 205, 66, 246, 195,
          173, 88, 99, 181>>
    @@ <<<<>>, <<162, 162, 163, 164, 165, 166, 167, 168, 169, 170, 171, 172,
       173, 174, 175, 176, 177, 178, 179, 180, 181, 182, 183, 184, 185, 186,
       187, 188, 189, 190, 191, 192, 193, 194, 195, 196, 197, 198, 199, 200,
       201, 202, 203, 204, 205, 206, 207, 208, 209, 210, 211, 212, 213, 214,
       215, 216, 217, 218, 219, 220, 221, 222, 223, 224>>, <<0, 0, 1,
       34465>>>>
       :> <<98, 217, 125, 166, 223, 151, 7, 133, 191, 72, 0, 201, 6, 222,
          172, 240, 87, 13, 48, 128, 131, 154, 28, 51, 72, 75, 5, 230, 183,
          11, 232, 184>>
    @@ <<<<112>>, <<>>, <<0, 0, 1, 34465>>>>
       :> <<162, 69, 151, 63, 74, 115, 88, 185, 237, 42, 38, 234, 229, 221,
          0, 17, 184, 43, 233, 151, 58, 62, 163, 129, 230, 225, 88, 228, 130,
          216, 221, 160>>
    @@ <<<<112>>, <<17, 18, 19, 20, 21, 22, 23, 24, 25, 26, 27, 28, 29, 30,
       31, 32>>, <<0, 0, 1, 34465>>>>
       :> <<29, 180, 226, 134, 206, 53, 164, 150, 143, 79, 177, 158, 26, 0,
          215, 130, 83, 50, 223, 88, 167, 148, 18, 126, 239, 189, 226, 94,
          153, 251, 42, 57>>
    @@ <<<<112>>, <<33, 34, 35, 36, 37, 38, 39, 40, 41, 42, 43, 44, 45, 46,
       47, 48>>, <<0, 0, 1, 34465>>>>
       :> <<234, 56, 22, 170, 219, 46, 10, 234, 144, 1, 70, 187, 47, 250,
          157, 14, 174, 58, 164, 217, 8, 95, 48, 121, 32, 202, 208, 94, 230,
          28, 226, 239>>
    @@ <<<<112>>, <<161>>, <<0, 0, 1, 34465>>>>
       :> <<195, 121, 94, 208, 52, 238, 51, 41, 93, 252, 61, 6, 164, 218,
          100, 2, 25, 29, 119, 144, 23, 150, 144, 253, 156, 137, 50, 164, 137,
          140, 211, 138>>
    @@ <<<<112>>, <<161, 162>>, <<0, 0, 1, 34465>>>>
       :> <<1, 85, 71, 35, 190, 6, 144, 86, 203, 116, 109, 101, 82, 151,
          219, 174, 91, 170, 42, 1, 230, 94, 255, 29, 171, 9, 31, 35, 181, 34,
          173, 145>>
    @@ <<<<112>>, <<161, 162, 163>>, <<0, 0, 1, 34465>>>>
       :> <<140, 153, 51, 45, 10, 60, 162, 241, 15, 80, 35, 135, 223, 120,
          185, 27, 143, 94, 253, 199, 241, 219, 218, 219, 99, 87, 221, 50, 12,
          191, 159, 201>>
    @@ <<<<112>>, <<161, 162, 163, 164>>, <<0, 0, 1, 34465>>>>
       :> <<128, 239, 241, 212, 20, 39, 231, 250, 170, 123, 115, 232, 192,
          255, 136, 121, 111, 172, 147, 146, 178, 47, 117, 20, 204, 132, 178,
          203, 100, 150, 161, 167>>
    @@ <<<<112>>, <<161, 162, 163, 164, 165, 166, 167, 168, 169, 170, 171,
       172, 173, 174, 175, 176>>, <<0, 0, 1, 34465>>>>
       :> <<142, 241, 3, 143, 169, 100, 187, 186, 21, 168, 214, 15, 68, 22,
          80, 149, 134, 148, 220, 34, 210, 56, 141, 96, 80, 171, 213, 210,
          214, 118, 169, 208>>
    @@ <<<<112>>, <<161, 162, 163, 164, 165, 166, 167, 168, 169, 170, 171,
       172, 173, 174, 175, 176, 177, 178, 179, 180, 181, 182, 183, 184, 185,
       186, 187, 188, 189, 190, 191, 192, 193, 194, 195, 196, 197, 198, 199,
       200, 201, 202, 203, 204, 205, 206, 207, 208, 209, 210, 211, 212, 213,
       214, 215, 216, 217, 218, 219, 220, 221, 222, 223, 224>>, <<0, 0, 1,
       34465>>>>
       :> <<215, 122, 110, 245, 29, 55, 93, 72, 176, 85, 142, 165, 26, 75,
          224, 115, 142, 42, 115, 55, 177, 204, 245, 251, 248, 169, 129, 24,
          78, 229, 78, 144>>
    @@ <<<<112>>, <<161, 162, 163, 164, 165, 166, 167, 168, 169, 170, 171,
       172, 173, 174, 175, 176, 177, 178, 179, 180, 181, 182, 183, 184, 185,
       186, 187, 188, 189, 190, 191, 192, 193, 194, 195, 196, 197, 198, 199,
       200, 201, 202, 203, 204, 205, 206, 207, 208, 209, 210, 211, 212, 213,
       214, 215, 216, 217, 218, 219, 220, 221, 222, 223, 224, 225>>, <<0, 0,
       1, 34465>>>>
       :> <<49, 19, 160, 37, 25, 71, 25, 238, 41, 83, 210, 151, 202, 71,
          170, 113, 75, 129, 223, 54, 192, 206, 252, 152, 255, 22, 138, 157,
          96, 55, 39, 127>>
    @@ <<<<112>>, <<162>>, <<0, 0, 1, 34465>>>>
       :> <<37, 142, 193, 169, 136, 92, 248, 106, 222, 115, 176, 26, 133,
          232, 105, 1, 35, 2, 149, 217, 169, 241, 42, 19, 249, 36, 72, 29,
          195, 9, 48, 106>>
    @@ <<<<112>>, <<162, 162>>, <<0, 0, 1, 34465>>>>
       :> <<33, 234, 11, 178, 130, 67, 158, 204, 161, 184, 249, 5, 34, 74,
          150, 126, 87, 34, 209, 212, 56, 213, 201, 30, 63, 107, 36, 98, 100,
          142, 25, 115>>
    @@ <<<<112>>, <<162, 162, 163>>, <<0, 0, 1, 34465>>>>
       :> <<232, 50, 144, 175, 32, 51, 131, 253, 9, 107, 133, 16, 19, 79,
          35, 166, 228, 167, 164, 123, 12, 165, 103, 156, 26, 36, 130, 247,
          178, 140, 68, 78>>
    @@ <<<<112>>, <<162, 162, 163, 164>>, <<0, 0, 1, 34465>>>>
       :> <<75, 119, 157, 181, 34, 202, 27, 111, 224, 11, 231, 179, 31,
          152, 221, 14, 220, 85, 209, 222, 196, 184, 101, 159, 56, 149, 191,
          25, 182, 36, 197, 190>>
    @@ <<<<112>>, <<162, 162, 163, 164, 165, 166, 167, 168, 169, 170, 171,
       172, 173, 174, 175, 176>>, <<0, 0, 1, 34465>>>>
       :> <<164, 182, 144, 67, 235, 239, 94, 14, 109, 196, 237, 243, 188,
          113, 51, 102, 46, 251, 197, 80, 244, 201, 145, 191, 81, 111, 25,
          196, 108, 223, 155, 98>>
    @@ <<<<112>>, <<162, 162, 163, 164, 165, 166, 167, 168, 169, 170, 171,
       172, 173, 174, 175, 176, 177, 178, 179, 180, 181, 182, 183, 184, 185,
       186, 187, 188, 189, 190, 191, 192, 193, 194, 195, 196, 197, 198, 199,
       200, 201, 202, 203, 204, 205, 206, 207, 208, 209, 210, 211, 212, 213,
       214, 215, 216, 217, 218, 219, 220, 221, 222, 223, 224>>, <<0, 0, 1,
       34465>>>>
       :> <<88, 42, 56, 34, 188, 49, 157, 126, 203, 50, 154, 63, 45, 109,
          29, 125, 84, 46, 186, 234, 116, 121, 133, 169, 183, 223, 110, 142,
          25, 44, 167, 1>>
    @@ <<<<112, 112>>, <<>>, <<0, 0, 1, 34465>>>>
       :> <<171, 49, 247, 249, 20, 108, 137, 70, 8, 108, 89, 215, 37, 0,
          52, 169, 30, 26, 72, 37, 135, 51, 64, 21, 7, 216, 252, 235, 73, 127,
          85, 102>>
    @@ <<<<112, 112>>, <<17, 18, 19, 20, 21, 22, 23, 24, 25, 26, 27, 28, 29,
       30, 31, 32>>, <<0, 0, 1, 34465>>>>
       :> <<52, 146, 9, 118, 150, 13, 81, 151, 89, 120, 218, 17, 131, 182,
          63, 121, 124, 165, 119, 152, 22, 69, 173, 178, 20, 198, 210, 70, 71,
          94, 77, 0>>
    @@ <<<<112, 112>>, <<33, 34, 35, 36, 37, 38, 39, 40, 41, 42, 43, 44, 45,
       46, 47, 48>>, <<0, 0, 1, 34465>>>>
       :> <<202, 40, 63, 0, 245, 179, 219, 44, 53, 71, 141, 192, 14, 175,
          164, 31, 203, 123, 95, 125, 139, 103, 131, 212, 229, 146, 54, 200,
          1, 94, 72, 251>>
    @@ <<<<112, 112>>, <<161>>, <<0, 0, 1, 34465>>>>
       :> <<70, 161, 219, 177, 34, 146, 124, 131, 239, 242, 190, 161, 209,
          104, 179, 205, 195, 216, 155, 87, 4, 65, 220, 202, 145, 159, 0, 228,
          164, 123, 242, 29>>
    @@ <<<<112, 112>>, <<161, 162>>, <<0, 0, 1, 34465>>>>
       :> <<3, 123, 26, 85, 176, 176, 48, 126, 224, 110, 159, 103, 134,
          123, 73, 200, 71, 173, 210, 188, 190, 188, 102, 240, 153, 203, 218,
          120, 59, 163, 199, 171>>
    @@ <<<<112, 112>>, <<161, 162, 163>>, <<0, 0, 1, 34465>>>>
       :> <<158, 45, 5, 134, 154, 65, 247, 38, 29, 138, 119, 61, 239, 211,
          78, 205, 73, 176, 246, 132, 208, 106, 244, 106, 181, 59, 6, 9, 123,
          242, 255, 237>>
    @@ <<<<112, 112>>, <<161, 162, 163, 164>>, <<0, 0, 1, 34465>>>>
       :> <<22, 122, 81, 53, 222, 184, 166, 132, 195, 229, 42, 238, 219,
          26, 41, 91, 144, 128, 102, 147, 210, 241, 180, 245, 31, 194, 2, 211,
          128, 202, 206, 203>>
    @@ <<<<112, 112>>, <<161, 162, 163, 164, 165, 166, 167, 168, 169, 170,
       171, 172, 173, 174, 175, 176>>, <<0, 0, 1, 34465>>>>
       :> <<135, 36, 237, 4, 220, 43, 149, 85, 169, 179, 123, 6, 85, 2,
          124, 118, 245, 89, 215, 238, 104, 7, 207, 1, 94, 192, 42, 73, 90,
          209, 15, 126>>
    @@ <<<<112, 112>>, <<161, 162, 163, 164, 165, 166, 167, 168, 169, 170,
       171, 172, 173, 174, 175, 176, 177, 178, 179, 180, 181, 182, 183, 184,
       185, 186, 187, 188, 189, 190, 191, 192, 193, 194, 195, 196, 197, 198,
       199, 200, 201, 202, 203, 204, 205, 206, 207, 208, 209, 210, 211, 212,
       213, 214, 215, 216, 217, 218, 219, 220, 221, 222, 223, 224>>, <<0, 0,
       1, 34465>>>>
       :> <<208, 223, 40, 204, 142, 65, 22, 201, 185, 149, 179, 145, 119,
          186, 65, 114, 212, 16, 165, 128, 209, 15, 125, 182, 245, 89, 89,
          191, 98, 65, 150, 140>>
    @@ <<<<112, 112>>, <<161, 162, 163, 164, 165, 166, 167, 168, 169, 170,
       171, 172, 173, 174, 175, 176, 177, 178, 179, 180, 181, 182, 183, 184,
       185, 186, 187, 188, 189, 190, 191, 192, 193, 194, 195, 196, 197, 198,
       199, 200, 201, 202, 203, 204, 205, 206, 207, 208, 209, 210, 211, 212,
       213, 214, 215, 216, 217, 218, 219, 220, 221, 222, 223, 224, 225>>,
       <<0, 0, 1, 34465>>>>
       :> <<129, 58, 197, 226, 249, 157, 65, 183, 182, 110, 207, 53, 40,
          169, 21, 225, 74, 138, 32, 183, 27, 83, 226, 241, 147, 240, 28, 17,
          125, 63, 12, 206>>
    @@ <<<<112, 112>>, <<162>>, <<0, 0, 1, 34465>>>>
       :> <<46, 114, 81, 58, 17, 206, 160, 175, 96, 218, 232, 82, 12, 34,
          209, 220, 227, 251, 57, 159, 177, 113, 205, 192, 60, 108, 223, 206,
          192, 198, 72, 43>>
    @@ <<<<112, 112>>, <<162, 162>>, <<0, 0, 1, 34465>>>>
       :> <<248, 227, 236, 31, 134, 199, 206, 143, 87, 176, 212, 46, 60,
          180, 116, 192, 253, 215, 56, 47, 225, 26, 140, 134, 148, 174, 70,
          70, 48, 144, 115, 127>>
    @@ <<<<112, 112>>, <<162, 162, 163>>, <<0, 0, 1, 34465>>>>
       :> <<73, 132, 111, 190, 140, 23, 103, 207, 175, 161, 57, 151, 242,
          148, 181, 51, 147, 1, 103, 43, 92, 122, 151, 233, 193, 29, 104, 59,
          252, 151, 198, 110>>
    @@ <<<<112, 112>>, <<162, 162, 163, 164>>, <<0, 0, 1, 34465>>>>
       :> <<0, 225, 25, 250, 120, 105, 118, 236, 63, 184, 49, 192, 210,
          181, 107, 201, 181, 229, 46, 3, 119, 107, 228, 199, 31, 243, 246,
          167, 220, 43, 119, 230>>
    @@ <<<<112, 112>>, <<162, 162, 163, 164, 165, 166, 167, 168, 169, 170,
       171, 172, 173, 174, 175, 176>>, <<0, 0, 1, 34465>>>>
       :> <<93, 45, 192, 10, 39, 6, 150, 141, 128, 222, 254, 136, 64, 78,
          132, 36, 219, 229, 52, 227, 166, 21, 26, 2, 224, 245, 239, 215, 157,
          165, 150, 91>>
    @@ <<<<112, 112>>, <<162, 162, 163, 164, 165, 166, 167, 168, 169, 170,
       171, 172, 173, 174, 175, 176, 177, 178, 179, 180, 181, 182, 183, 184,
       185, 186, 187, 188, 189, 190, 191, 192, 193, 194, 195, 196, 197, 198,
       199, 200, 201, 202, 203, 204, 205, 206, 207, 208, 209, 210, 211, 212,
       213, 214, 215, 216, 217, 218, 219, 220, 221, 222, 223, 224>>, <<0, 0,
       1, 34465>>>>
       :> <<228, 4, 190, 164, 8, 228, 102, 224, 152, 219, 202, 157, 72, 28,
          161, 229, 5, 20, 100, 99, 140, 53, 36, 24, 34, 233, 7, 235, 74, 212,
          168, 12>>
    @@ <<<<>>, <<>>, <<0, 0, 65535, 65535>>>>
       :> <<196, 78, 245, 166, 69, 227, 163, 121, 228, 96, 139, 199, 228,
          15, 37, 38, 171, 111, 62, 180, 181, 39, 235, 32, 180, 19, 164, 97,
          218, 175, 153, 254>>
    @@ <<<<>>, <<17, 18, 19, 20, 21, 22, 23, 24, 25, 26, 27, 28, 29, 30, 31,
       32>>, <<0, 0, 65535, 65535>>>>
       :> <<156, 17, 111, 209, 248, 120, 125, 222, 234, 186, 184, 56, 184,
          151, 3, 1, 158, 216, 149, 186, 248, 253, 179, 11, 113, 189, 126,
          140, 235, 86, 175, 223>>
    @@ <<<<>>, <<33, 34, 35, 36, 37, 38, 39, 40, 41, 42, 43, 44, 45, 46, 47,
       48>>, <<0, 0, 65535, 65535>>>>
       :> <<225, 56, 86, 20, 142, 12, 211, 44, 20, 159, 247, 175, 151, 133,
          103, 166, 138, 145, 179, 146, 70, 108, 118, 190, 202, 214, 92, 78,
          227, 77, 44, 63>>
    @@ <<<<>>, <<161>>, <<0, 0, 65535, 65535>>>>
       :> <<9, 111, 148, 123, 140, 65, 0, 180, 74, 53, 237, 155, 41, 56,
          151, 162, 89, 172, 240, 83, 195, 195, 243, 2, 127, 190, 220, 65,
          196, 56, 123, 133>>
    @@ <<<<>>, <<161, 162>>, <<0, 0, 65535, 65535>>>>
       :> <<134, 227, 166, 208, 120, 130, 237, 244, 220, 7, 204, 23, 164,
          20, 27, 74, 43, 186, 91, 95, 228, 117, 140, 210, 10, 20, 79, 8, 240,
          217, 99, 90>>
    @@ <<<<>>, <<161, 162, 163>>, <<0, 0, 65535, 65535>>>>
       :> <<205, 29, 75, 105, 115, 205, 219, 45, 144, 76, 37, 143, 149,
          224, 111, 116, 126, 197, 109, 24, 99, 251, 157, 100, 224, 179, 95,
          130, 100, 204, 90, 237>>
    @@ <<<<>>, <<161, 162, 163, 164>>, <<0, 0, 65535, 65535>>>>
       :> <<148, 36, 82, 115, 130, 164, 51, 138, 159, 66, 43, 160, 174, 83,
          131, 121, 182, 15, 41, 163, 180, 36, 123, 59, 176, 200, 59, 2, 75,
          188, 37, 188>>
    @@ <<<<>>, <<161, 162, 163, 164, 165, 166, 167, 168, 169, 170, 171, 172,
       173, 174, 175, 176>>, <<0, 0, 65535, 65535>>>>
       :> <<223, 224, 160, 153, 224, 100, 11, 18, 219, 234, 82, 92, 208,
          39, 124, 204, 177, 68, 185, 143, 146, 71, 115, 4, 252, 82, 51, 127,
          78, 226, 76, 149>>
    @@ <<<<>>, <<161, 162, 163, 164, 165, 166, 167, 168, 169, 170, 171, 172,
       173, 174, 175, 176, 177, 178, 179, 180, 181, 182, 183, 184, 185, 186,
       187, 188, 189, 190, 191, 192, 193, 194, 195, 196, 197, 198, 199, 200,
       201, 202, 203, 204, 205, 206, 207, 208, 209, 210, 211, 212, 213, 214,
       215, 216, 217, 218, 219, 220, 221, 222, 223, 224>>, <<0, 0, 65535,
       65535>>>>
       :> <<3, 212, 2, 76, 238, 113, 79, 23, 158, 171, 118, 110, 34, 32,
          20, 225, 86, 21, 243, 23, 32, 15, 54, 1, 34, 78, 122, 1, 50, 237,
          44, 44>>
    @@ <<<<>>, <<161, 162, 163, 164, 165, 166, 167, 168, 169, 170, 171, 172,
       173, 174, 175, 176, 177, 178, 179, 180, 181, 182, 183, 184, 185, 186,
       187, 188, 189, 190, 191, 192, 193, 194, 195, 196, 197, 198, 199, 200,
       201, 202, 203, 204, 205, 206, 207, 208, 209, 210, 211, 212, 213, 214,
       215, 216, 217, 218, 219, 220, 221, 222, 223, 224, 225>>, <<0, 0,
       65535, 65535>>>>
       :> <<168, 72, 171, 160, 62, 155, 26, 254, 61, 3, 128, 248, 107, 164,
          107, 210, 140, 101, 244, 184, 59, 255, 192, 116, 184, 42, 150, 44,
          209, 54, 218, 106>>
    @@ <<<<>>, <<162>>, <<0, 0, 65535, 65535>>>>
       :> <<19, 8, 237, 159, 127, 195, 185, 177, 64, 59, 189, 127, 110, 92,
          157, 67, 19, 12, 148, 231, 40, 202, 15, 49, 44, 118, 151, 198, 236,
          124, 159, 207>>
    @@ <<<<>>, <<162, 162>>, <<0, 0, 65535, 65535>>>>
       :> <<213, 205, 100, 248, 254, 102, 229, 177, 78, 110, 249, 186, 173,
          174, 117, 178, 160, 77, 242, 200, 168, 171, 56, 3, 113, 64, 107, 46,
          75, 152, 233, 202>>
    @@ <<<<>>, <<162, 162, 163>>, <<0, 0, 65535, 65535>>>>
       :> <<172, 42, 210, 80, 5, 240, 216, 58, 19, 85, 74, 70, 255, 152,
          195, 225, 130, 174, 59, 187, 132, 231, 172, 196, 11, 244, 171, 65,
          148, 187, 105, 125>>
    @@ <<<<>>, <<162, 162, 163, 164>>, <<0, 0, 65535, 65535>>>>
       :> <<223, 241, 205, 120, 190, 85, 113, 17, 225, 170, 85, 175, 211,
          11, 255, 91, 209, 148, 134, 249, 51, 127, 10, 163, 194, 104, 175,
          129, 94, 3, 65, 229>>
    @@ <<<<>>, <<162, 162, 163, 164, 165, 166, 167, 168, 169, 170, 171, 172,
       173, 174, 175, 176>>, <<0, 0, 65535, 65535>>>>
       :> <<224, 149, 254, 144, 204, 171, 199, 41, 158, 170, 69, 92, 78,
          241, 2, 185, 252, 1, 193, 112, 180, 88, 68, 34, 47, 39, 190, 254,
          128, 58, 226, 35>>
    @@ <<<<>>, <<162, 162, 163, 164, 165, 166, 167, 168, 169, 170, 171, 172,
       173, 174, 175, 176, 177, 178, 179, 180, 181, 182, 183, 184, 185, 186,
       187, 188, 189, 190, 191, 192, 193, 194, 195, 196, 197, 198, 199, 200,
       201, 202, 203, 204, 205, 206, 207, 208, 209, 210, 211, 212, 213, 214,
       215, 216, 217, 218, 219, 220, 221, 222, 223, 224>>, <<0, 0, 65535,
       65535>>>>
       :> <<8, 57, 235, 38, 192, 58, 52, 93, 14, 255, 123, 253, 3, 158, 22,
          189, 253, 55, 125, 123, 85, 128, 94, 45, 120, 6, 172, 185, 91, 185,
          213, 28>>
    @@ <<<<112>>, <<>>, <<0, 0, 65535, 65535>>>>
       :> <<53, 29, 53, 255, 169, 2, 115, 203, 69, 204, 77, 191, 136, 172,
          140, 250, 127, 229, 158, 203, 144, 58, 204, 143, 156, 248, 32, 232,
          77, 91, 62, 124>>
    @@ <<<<112>>, <<17, 18, 19, 20, 21, 22, 23, 24, 25, 26, 27, 28, 29, 30,
       31, 32>>, <<0, 0, 65535, 65535>>>>
       :> <<198, 93, 4, 108, 98, 199, 238, 133, 142, 103, 96, 208, 198, 70,
          85, 239, 13, 11, 192, 16, 60, 224, 122, 246, 151, 146, 30, 197, 73,
          181, 120, 240>>
    @@ <<<<112>>, <<33, 34, 35, 36, 37, 38, 39, 40, 41, 42, 43, 44, 45, 46,
       47, 48>>, <<0, 0, 65535, 65535>>>>
       :> <<220, 196, 173, 188, 177, 209, 178, 254, 130, 243, 153, 86, 13,
          76, 208, 112, 206, 220, 130, 108, 55, 137, 237, 146, 7, 21, 247, 23,
          143, 196, 80, 77>>
    @@ <<<<112>>, <<161>>, <<0, 0, 65535, 65535>>>>
       :> <<217, 5, 99, 76, 180, 107, 154, 237, 175, 6, 254, 188, 183, 44,
          118, 156, 38, 31, 106, 107, 23, 50, 143, 139, 173, 43, 49, 139, 124,
          249, 185, 125>>
    @@ <<<<112>>, <<161, 162>>, <<0, 0, 65535, 65535>>>>
       :> <<102, 224, 40, 101, 52, 83, 172, 116, 10, 132, 220, 28, 52, 236,
          57, 194, 35, 228, 169, 22, 251, 194, 78, 21, 176, 96, 27, 210, 245,
          137, 77, 130>>
    @@ <<<<112>>, <<161, 162, 163>>, <<0, 0, 65535, 65535>>>>
       :> <<24, 97, 78, 116, 58, 149, 120, 44, 171, 117, 74, 224, 189, 155,
          196, 108, 80, 152, 220, 178, 224, 235, 111, 132, 231, 107, 124, 215,
          85, 118, 72, 211>>
    @@ <<<<112>>, <<161, 162, 163, 164>>, <<0, 0, 65535, 65535>>>>
       :> <<149, 142, 33, 166, 196, 182, 139, 8, 51, 203, 109, 145, 47,
          139, 84, 101, 63, 57, 135, 36, 114, 165, 184, 74, 31, 57, 10, 238,
          19, 5, 190, 29>>
    @@ <<<<112>>, <<161, 162, 163, 164, 165, 166, 167, 168, 169, 170, 171,
       172, 173, 174, 175, 176>>, <<0, 0, 65535, 65535>>>>
       :> <<89, 87, 164, 183, 92, 145, 32, 89, 79, 82, 183, 150, 152, 24,
          140, 163, 46, 241, 163, 115, 237, 172, 144, 18, 101, 96, 95, 244,
          111, 119, 87, 72>>
    @@ <<<<112>>, <<161, 162, 163, 164, 165, 166, 167, 168, 169, 170, 171,
       172, 173, 174, 175, 176, 177, 178, 179, 180, 181, 182, 183, 184, 185,
       186, 187, 188, 189, 190, 191, 192, 193, 194, 195, 196, 197, 198, 199,
       200, 201, 202, 203, 204, 205, 206, 207, 208, 209, 210, 211, 212, 213,
       214, 215, 216, 217, 218, 219, 220, 221, 222, 223, 224>>, <<0, 0,
       65535, 65535>>>>
       :> <<174, 250, 42, 185, 31, 145, 166, 138, 243, 112, 33, 76, 223,
          148, 49, 52, 169, 82, 141, 170, 94, 181, 180, 237, 91, 214, 55, 29,
          232, 136, 242, 46>>
    @@ <<<<112>>, <<161, 162, 163, 164, 165, 166, 167, 168, 169, 170, 171,
       172, 173, 174, 175, 176, 177, 178, 179, 180, 181, 182, 183, 184, 185,
       186, 187, 188, 189, 190, 191, 192, 193, 194, 195, 196, 197, 198, 199,
       200, 201, 202, 203, 204, 205, 206, 207, 208, 209, 210, 211, 212, 213,
       214, 215, 216, 217, 218, 219, 220, 221, 222, 223, 224, 225>>, <<0, 0,
       65535, 65535>>>>
       :> <<88, 223, 218, 47, 143, 39, 52, 52, 144, 136, 183, 174, 175,
          136, 149, 191, 154, 72, 155, 104, 241, 150, 186, 141, 233, 173, 98,
          70, 105, 122, 15, 127>>
    @@ <<<<112>>, <<162>>, <<0, 0, 65535, 65535>>>>
       :> <<195, 221, 9, 82, 148, 60, 229, 209, 137, 137, 176, 196, 51,
          112, 2, 209, 40, 145, 57, 223, 13, 223, 23, 215, 252, 2, 202, 147,
          110, 183, 48, 160>>
    @@ <<<<112>>, <<162, 162>>, <<0, 0, 65535, 65535>>>>
       :> <<124, 242, 28, 32, 238, 92, 36, 187, 138, 155, 207, 196, 221,
          97, 47, 193, 57, 195, 77, 74, 103, 0, 134, 92, 217, 14, 79, 234, 82,
          55, 78, 205>>
    @@ <<<<112>>, <<162, 162, 163>>, <<0, 0, 65535, 65535>>>>
       :> <<250, 28, 183, 48, 17, 139, 69, 56, 126, 204, 196, 94, 40, 73,
          121, 178, 3, 84, 55, 108, 205, 14, 141, 76, 7, 206, 216, 143, 106,
          224, 104, 18>>
    @@ <<<<112>>, <<162, 162, 163, 164>>, <<0, 0, 65535, 65535>>>>
       :> <<232, 129, 227, 19, 214, 198, 18, 114, 180, 105, 35, 0, 113, 35,
          224, 141, 203, 236, 45, 19, 91, 189, 145, 91, 159, 123, 144, 252,
          127, 199, 117, 104>>
    @@ <<<<112>>, <<162, 162, 163, 164, 165, 166, 167, 168, 169, 170, 171,
       172, 173, 174, 175, 176>>, <<0, 0, 65535, 65535>>>>
       :> <<251, 176, 249, 7, 46, 81, 183, 213, 238, 190, 190, 74, 250, 86,
          200, 71, 42, 224, 219, 3, 118, 21, 125, 207, 184, 17, 202, 200, 188,
          173, 44, 215>>
    @@ <<<<112>>, <<162, 162, 163, 164, 165, 166, 167, 168, 169, 170, 171,
       172, 173, 174, 175, 176, 177, 178, 179, 180, 181, 182, 183, 184, 185,
       186, 187, 188, 189, 190, 191, 192, 193, 194, 195, 196, 197, 198, 199,
       200, 201, 202, 203, 204, 205, 206, 207, 208, 209, 210, 211, 212, 213,
       214, 215, 216, 217, 218, 219, 220, 221, 222, 223, 224>>, <<0, 0,
       65535, 65535>>>>
       :> <<146, 113, 42, 58, 102, 9, 122, 225, 40, 19, 50, 51, 159, 52,
          148, 113, 54, 232, 192, 58, 149, 145, 103, 17, 90, 207, 209, 53,
          202, 184, 55, 148>>
    @@ <<<<112, 112>>, <<>>, <<0, 0, 65535, 65535>>>>
       :> <<9, 239, 166, 148, 98, 233, 6, 52, 160, 51, 126, 20, 34, 181,
          10, 97, 85, 9, 57, 130, 90, 71, 189, 57, 54, 36, 89, 66, 179, 2, 2,
          31>>
    @@ <<<<112, 112>>, <<17, 18, 19, 20, 21, 22, 23, 24, 25, 26, 27, 28, 29,
       30, 31, 32>>, <<0, 0, 65535, 65535>>>>
       :> <<190, 193, 120, 230, 60, 123, 97, 112, 148, 45, 92, 138, 162,
          245, 83, 50, 188, 37, 237, 20, 61, 166, 207, 43, 115, 170, 203, 82,
          88, 192, 164, 255>>
    @@ <<<<112, 112>>, <<33, 34, 35, 36, 37, 38, 39, 40, 41, 42, 43, 44, 45,
       46, 47, 48>>, <<0, 0, 65535, 65535>>>>
       :> <<222, 100, 46, 171, 163, 102, 16, 238, 103, 11, 66, 151, 201,
          71, 100, 56, 209, 75, 147, 131, 222, 92, 39, 83, 109, 101, 133, 55,
          94, 206, 50, 6>>
    @@ <<<<112, 112>>, <<161>>, <<0, 0, 65535, 65535>>>>
       :> <<125, 84, 123, 128, 183, 124, 169, 150, 8, 120, 46, 149, 23,
          183, 90, 168, 224, 13, 154, 187, 108, 14, 65, 34, 240, 247, 152, 83,
          166, 223, 186, 216>>
    @@ <<<<112, 112>>, <<161, 162>>, <<0, 0, 65535, 65535>>>>
       :> <<83, 64, 230, 129, 12, 130, 204, 107, 70, 58, 247, 33, 224, 82,
          99, 158, 55, 128, 137, 230, 52, 255, 161, 25, 14, 156, 196, 71, 203,
          148, 86, 201>>
    @@ <<<<112, 112>>, <<161, 162, 163>>, <<0, 0, 65535, 65535>>>>
       :> <<242, 88, 181, 147, 126, 46, 151, 224, 73, 172, 3, 146, 177,
          210, 47, 60, 83, 120, 226, 154, 170, 2, 2, 164, 85, 65, 49, 9, 135,
          174, 47, 62>>
    @@ <<<<112, 112>>, <<161, 162, 163, 164>>, <<0, 0, 65535, 65535>>>>
       :> <<128, 126, 26, 111, 203, 23, 57, 108, 16, 129, 126, 87, 215,
          226, 169, 65, 178, 49, 198, 83, 126, 141, 167, 96, 203, 16, 228,
          123, 40, 93, 209, 212>>
    @@ <<<<112, 112>>, <<161, 162, 163, 164, 165, 166, 167, 168, 169, 170,
       171, 172, 173, 174, 175, 176>>, <<0, 0, 65535, 65535>>>>
       :> <<184, 91, 84, 139, 208, 187, 15, 143, 38, 162, 153, 18, 103,
          116, 124, 247, 169, 125, 72, 251, 84, 248, 231, 22, 194, 68, 93,
          135, 186, 102, 91, 48>>
    @@ <<<<112, 112>>, <<161, 162, 163, 164, 165, 166, 167, 168, 169, 170,
       171, 172, 173, 174, 175, 176, 177, 178, 179, 180, 181, 182, 183, 184,
       185, 186, 187, 188, 189, 190, 191, 192, 193, 194, 195, 196, 197, 198,
       199, 200, 201, 202, 203, 204, 205, 206, 207, 208, 209, 210, 211, 212,
       213, 214, 215, 216, 217, 218, 219, 220, 221, 222, 223, 224>>, <<0, 0,
       65535, 65535>>>>
       :> <<204, 199, 16, 65, 195, 15, 240, 108, 1, 69, 104, 194, 113, 69,
          99, 47, 84, 84, 12, 117, 156, 43, 53, 241, 6, 217, 71, 219, 247, 23,
          148, 6>>
    @@ <<<<112, 112>>, <<161, 162, 163, 164, 165, 166, 167, 168, 169, 170,
       171, 172, 173, 174, 175, 176, 177, 178, 179, 180, 181, 182, 183, 184,
       185, 186, 187, 188, 189, 190, 191, 192, 193, 194, 195, 196, 197, 198,
       199, 200, 201, 202, 203, 204, 205, 206, 207, 208, 209, 210, 211, 212,
       213, 214, 215, 216, 217, 218, 219, 220, 221, 222, 223, 224, 225>>,
       <<0, 0, 65535, 65535>>>>
       :> <<29, 3, 162, 157, 243, 143, 143, 4, 191, 51, 55, 243, 251, 250,
          28, 93, 44, 182, 103, 55, 238, 56, 80, 75, 238, 79, 11, 233, 236,
          227, 8, 52>>
    @@ <<<<112, 112>>, <<162>>, <<0, 0, 65535, 65535>>>>
       :> <<114, 147, 134, 244, 246, 238, 7, 72, 152, 53, 105, 231, 8, 165,
          220, 221, 106, 95, 223, 219, 21, 231, 187, 10, 250, 239, 217, 48,
          162, 221, 159, 28>>
    @@ <<<<112, 112>>, <<162, 162>>, <<0, 0, 65535, 65535>>>>
       :> <<178, 52, 153, 141, 62, 72, 51, 210, 7, 43, 75, 246, 92, 201,
          249, 76, 86, 101, 253, 188, 78, 235, 134, 203, 210, 151, 76, 207,
          80, 16, 51, 192>>
    @@ <<<<112, 112>>, <<162, 162, 163>>, <<0, 0, 65535, 65535>>>>
       :> <<209, 96, 74, 222, 54, 233, 121, 172, 152, 147, 35, 221, 79, 60,
          233, 196, 35, 138, 89, 254, 95, 110, 21, 85, 62, 189, 118, 1, 60,
          49, 15, 167>>
    @@ <<<<112, 112>>, <<162, 162, 163, 164>>, <<0, 0, 65535, 65535>>>>
       :> <<239, 79, 173, 97, 176, 237, 202, 201, 109, 63, 164, 55, 198,
          192, 93, 171, 118, 248, 119, 120, 143, 50, 138, 204, 132, 207, 206,
          241, 218, 29, 59, 167>>
    @@ <<<<112, 112>>, <<162, 162, 163, 164, 165, 166, 167, 168, 169, 170,
       171, 172, 173, 174, 175, 176>>, <<0, 0, 65535, 65535>>>>
       :> <<231, 109, 253, 250, 20, 188, 115, 146, 84, 117, 28, 152, 156,
          33, 95, 95, 53, 236, 181, 8, 175, 58, 79, 178, 17, 165, 190, 145,
          81, 3, 107, 196>>
    @@ <<<<112, 112>>, <<162, 162, 163, 164, 165, 166, 167, 168, 169, 170,
       171, 172, 173, 174, 175, 176, 177, 178, 179, 180, 181, 182, 183, 184,
       185, 186, 187, 188, 189, 190, 191, 192, 193, 194, 195, 196, 197, 198,
       199, 200, 201, 202, 203, 204, 205, 206, 207, 208, 209, 210, 211, 212,
       213, 214, 215, 216, 217, 218, 219, 220, 221, 222, 223, 224>>, <<0, 0,
       65535, 65535>>>>
       :> <<93, 66, 28, 175, 36, 100, 130, 94, 16, 133, 234, 174, 246, 255,
          139, 30, 211, 234, 126, 86, 103, 143, 196, 60, 60, 0, 255, 2, 252,
          111, 200, 43>>
    @@ <<<<>>, <<>>, <<0, 1, 0, 1>>>>
       :> <<168, 173, 240, 82, 38, 251, 58, 240, 104, 13, 233, 202, 1, 200,
          216, 179, 206, 38, 237, 207, 84, 29, 36, 46, 122, 237, 212, 100,
          224, 163, 255, 173>>
    @@ <<<<>>, <<17, 18, 19, 20, 21, 22, 23, 24, 25, 26, 27, 28, 29, 30, 31,
       32>>, <<0, 1, 0, 1>>>>
       :> <<187, 243, 141, 39, 61, 239, 64, 211, 49, 19, 76, 12, 205, 76,
          227, 89, 167, 115, 115, 76, 123, 110, 20, 95, 74, 251, 201, 252, 14,
          131, 29, 153>>
    @@ <<<<>>, <<33, 34, 35, 36, 37, 38, 39, 40, 41, 42, 43, 44, 45, 46, 47,
       48>>, <<0, 1, 0, 1>>>>
       :> <<76, 165, 253, 93, 75, 215, 102, 63, 235, 47, 217, 28, 26, 155,
          246, 86, 209, 49, 139, 157, 49, 251, 141, 9, 19, 51, 81, 86, 50,
          140, 194, 177>>
    @@ <<<<>>, <<161>>, <<0, 1, 0, 1>>>>
       :> <<122, 38, 195, 86, 147, 31, 214, 32, 22, 59, 36, 125, 6, 183,
          222, 21, 132, 81, 246, 75, 196, 138, 9, 32, 50, 183, 123, 130, 93,
          62, 255, 175>>
    @@ <<<<>>, <<161, 162>>, <<0, 1, 0, 1>>>>
       :> <<77, 116, 103, 39, 242, 123, 115, 140, 188, 139, 74, 181, 245,
          75, 226, 63, 236, 97, 153, 152, 72, 114, 77, 149, 249, 171, 0, 179,
          83, 171, 155, 147>>
    @@ <<<<>>, <<161, 162, 163>>, <<0, 1, 0, 1>>>>
       :> <<119, 154, 67, 53, 164, 98, 36, 137, 171, 103, 208, 51, 202, 4,
          114, 123, 15, 95, 11, 24, 51, 48, 238, 24, 98, 179, 70, 26, 3, 57,
          25, 190>>
    @@ <<<<>>, <<161, 162, 163, 164>>, <<0, 1, 0, 1>>>>
       :> <<5, 105, 33, 218, 32, 120, 228, 171, 19, 174, 128, 20, 111, 130,
          210, 156, 98, 52, 70, 24, 208, 76, 14, 188, 19, 91, 131, 93, 56,
          106, 244, 83>>
    @@ <<<<>>, <<161, 162, 163, 164, 165, 166, 167, 168, 169, 170, 171, 172,
       173, 174, 175, 176>>, <<0, 1, 0, 1>>>>
       :> <<247, 223, 199, 142, 129, 20, 120, 132, 119, 241, 162, 77, 232,
          3, 62, 219, 51, 29, 171, 60, 161, 130, 83, 217, 117, 251, 109, 239,
          239, 47, 52, 22>>
    @@ <<<<>>, <<161, 162, 163, 164, 165, 166, 167, 168, 169, 170, 171, 172,
       173, 174, 175, 176, 177, 178, 179, 180, 181, 182, 183, 184, 185, 186,
       187, 188, 189, 190, 191, 192, 193, 194, 195, 196, 197, 198, 199, 200,
       201, 202, 203, 204, 205, 206, 207, 208, 209, 210, 211, 212, 213, 214,
       215, 216, 217, 218, 219, 220, 221, 222, 223, 224>>, <<0, 1, 0, 1>>>>
       :> <<92, 78, 192, 198, 114, 86, 120, 84, 88, 93, 210, 7, 20, 76, 37,
          85, 254, 144, 220, 13, 108, 37, 96, 210, 62, 243, 251, 107, 170,
          134, 236, 188>>
    @@ <<<<>>, <<161, 162, 163, 164, 165, 166, 167, 168, 169, 170, 171, 172,
       173, 174, 175, 176, 177, 178, 179, 180, 181, 182, 183, 184, 185, 186,
       187, 188, 189, 190, 191, 192, 193, 194, 195, 196, 197, 198, 199, 200,
       201, 202, 203, 204, 205, 206, 207, 208, 209, 210, 211, 212, 213, 214,
       215, 216, 217, 218, 219, 220, 221, 222, 223, 224, 225>>, <<0, 1, 0,
       1>>>>
       :> <<195, 195, 141, 189, 27, 104, 208, 143, 118, 140, 142, 44, 42,
          157, 52, 219, 40, 138, 136, 71, 121, 169, 66, 246, 60, 53, 255, 106,
          117, 142, 226, 58>>
    @@ <<<<>>, <<162>>, <<0, 1, 0, 1>>>>
       :> <<142, 233, 188, 203, 174, 202, 82, 82, 185, 201, 28, 153, 229,
          202, 188, 32, 236, 98, 183, 130, 176, 55, 85, 72, 221, 231, 33, 239,
          57, 56, 12, 40>>
    @@ <<<<>>, <<162, 162>>, <<0, 1, 0, 1>>>>
       :> <<234, 111, 52, 254, 168, 249, 65, 49, 176, 144, 148, 18, 113,
          200, 108, 53, 246, 123, 40, 189, 210, 172, 53, 167, 39, 16, 169, 94,
          158, 234, 242, 179>>
    @@ <<<<>>, <<162, 162, 163>>, <<0, 1, 0, 1>>>>
       :> <<66, 253, 69, 22, 48, 115, 199, 59, 173, 228, 248, 200, 244,
          199, 132, 184, 100, 219, 55, 167, 156, 38, 208, 119, 34, 5, 92, 216,
          228, 233, 118, 222>>
    @@ <<<<>>, <<162, 162, 163, 164>>, <<0, 1, 0, 1>>>>
       :> <<225, 92, 250, 2, 161, 203, 3, 22, 36, 36, 120, 222, 161, 132,
          18, 213, 166, 153, 174, 241, 191, 218, 3, 241, 37, 228, 88, 226, 48,
          226, 168, 32>>
    @@ <<<<>>, <<162, 162, 163, 164, 165, 166, 167, 168, 169, 170, 171, 172,
       173, 174, 175, 176>>, <<0, 1, 0, 1>>>>
       :> <<31, 252, 38, 123, 146, 130, 80, 204, 10, 169, 230, 40, 172,
          204, 185, 124, 162, 158, 135, 145, 225, 123, 57, 156, 214, 159, 248,
          88, 239, 76, 27, 98>>
    @@ <<<<>>, <<162, 162, 163, 164, 165, 166, 167, 168, 169, 170, 171, 172,
       173, 174, 175, 176, 177, 178, 179, 180, 181, 182, 183, 184, 185, 186,
       187, 188, 189, 190, 191, 192, 193, 194, 195, 196, 197, 198, 199, 200,
       201, 202, 203, 204, 205, 206, 207, 208, 209, 210, 211, 212, 213, 214,
       215, 216, 217, 218, 219, 220, 221, 222, 223, 224>>, <<0, 1, 0, 1>>>>
       :> <<138, 146, 106, 163, 60, 201, 124, 210, 213, 157, 207, 199, 1,
          167, 142, 220, 34, 152, 192, 61, 170, 74, 240, 41, 221, 163, 44,
          108, 18, 22, 164, 114>>
    @@ <<<<112>>, <<>>, <<0, 1, 0, 1>>>>
       :> <<202, 170, 61, 136, 241, 177, 72, 188, 153, 43, 25, 138, 234,
          243, 182, 175, 75, 178, 100, 53, 228, 171, 71, 72, 46, 165, 83, 218,
          32, 196, 70, 101>>
    @@ <<<<112>>, <<17, 18, 19, 20, 21, 22, 23, 24, 25, 26, 27, 28, 29, 30,
       31, 32>>, <<0, 1, 0, 1>>>>
       :> <<14, 15, 198, 206, 245, 185, 178, 61, 162, 49, 14, 101, 5, 87,
          162, 175, 69, 220, 56, 131, 215, 199, 4, 181, 154, 233, 174, 57,
          163, 77, 60, 102>>
    @@ <<<<112>>, <<33, 34, 35, 36, 37, 38, 39, 40, 41, 42, 43, 44, 45, 46,
       47, 48>>, <<0, 1, 0, 1>>>>
       :> <<94, 250, 186, 3, 69, 103, 92, 217, 2, 227, 132, 213, 72, 112,
          29, 44, 71, 151, 30, 13, 119, 187, 177, 151, 206, 117, 55, 249, 51,
          129, 94, 182>>
    @@ <<<<112>>, <<161>>, <<0, 1, 0, 1>>>>
       :> <<40, 89, 37, 197, 54, 19, 126, 20, 136, 214, 195, 101, 195, 42,
          89, 35, 216, 27, 250, 66, 105, 150, 76, 0, 169, 136, 167, 33, 84,
          237, 250, 232>>
    @@ <<<<112>>, <<161, 162>>, <<0, 1, 0, 1>>>>
       :> <<125, 232, 228, 50, 106, 44, 240, 40, 52, 49, 246, 241, 17, 79,
          133, 9, 98, 61, 181, 154, 63, 43, 18, 97, 138, 27, 134, 251, 58, 43,
          171, 46>>
    @@ <<<<112>>, <<161, 162, 163>>, <<0, 1, 0, 1>>>>
       :> <<29, 4, 21, 68, 166, 229, 234, 255, 242, 79, 210, 17, 31, 59,
          35, 137, 183, 253, 240, 82, 23, 90, 150, 173, 162, 52, 21, 14, 174,
          142, 68, 142>>
    @@ <<<<112>>, <<161, 162, 163, 164>>, <<0, 1, 0, 1>>>>
       :> <<67, 112, 204, 241, 50, 34, 237, 105, 78, 171, 94, 213, 163,
          223, 144, 24, 74, 195, 224, 73, 31, 148, 207, 40, 198, 255, 137, 90,
          53, 27, 73, 216>>
    @@ <<<<112>>, <<161, 162, 163, 164, 165, 166, 167, 168, 169, 170, 171,
       172, 173, 174, 175, 176>>, <<0, 1, 0, 1>>>>
       :> <<58, 177, 197, 11, 117, 115, 97, 189, 238, 240, 165, 249, 40,
          38, 158, 21, 76, 146, 49, 223, 215, 125, 20, 7, 133, 152, 144, 164,
          144, 31, 28, 203>>
    @@ <<<<112>>, <<161, 162, 163, 164, 165, 166, 167, 168, 169, 170, 171,
       172, 173, 174, 175, 176, 177, 178, 179, 180, 181, 182, 183, 184, 185,
       186, 187, 188, 189, 190, 191, 192, 193, 194, 195, 196, 197, 198, 199,
       200, 201, 202, 203, 204, 205, 206, 207, 208, 209, 210, 211, 212, 213,
       214, 215, 216, 217, 218, 219, 220, 221, 222, 223, 224>>, <<0, 1, 0,
       1>>>>
       :> <<120, 52, 20, 239, 185, 133, 25, 93, 195, 154, 72, 245, 58, 28,
          67, 219, 83, 66, 65, 154, 232, 131, 250, 66, 27, 24, 158, 130, 202,
          152, 251, 225>>
    @@ <<<<112>>, <<161, 162, 163, 164, 165, 166, 167, 168, 169, 170, 171,
       172, 173, 174, 175, 176, 177, 178, 179, 180, 181, 182, 183, 184, 185,
       186, 187, 188, 189, 190, 191, 192, 193, 194, 195, 196, 197, 198, 199,
       200, 201, 202, 203, 204, 205, 206, 207, 208, 209, 210, 211, 212, 213,
       214, 215, 216, 217, 218, 219, 220, 221, 222, 223, 224, 225>>, <<0, 1,
       0, 1>>>>
       :> <<98, 201, 10, 76, 6, 26, 6, 147, 50, 80, 213, 196, 92, 59, 180,
          96, 220, 215, 4, 200, 146, 71, 238, 130, 92, 112, 185, 44, 203, 233,
          8, 196>>
    @@ <<<<112>>, <<162>>, <<0, 1, 0, 1>>>>
       :> <<60, 8, 229, 153, 232, 134, 101, 179, 247, 209, 150, 28, 155,
          57, 4, 160, 142, 14, 43, 189, 5, 125, 62, 241, 188, 26, 44, 220, 86,
          89, 25, 254>>
    @@ <<<<112>>, <<162, 162>>, <<0, 1, 0, 1>>>>
       :> <<228, 197, 112, 252, 253, 166, 163, 162, 21, 190, 76, 95, 91,
          15, 162, 14, 18, 52, 183, 146, 169, 197, 124, 60, 20, 133, 189, 40,
          59, 236, 33, 60>>
    @@ <<<<112>>, <<162, 162, 163>>, <<0, 1, 0, 1>>>>
       :> <<170, 214, 213, 55, 21, 87, 210, 108, 27, 93, 36, 86, 118, 72,
          25, 100, 244, 208, 193, 30, 182, 178, 129, 207, 170, 177, 149, 62,
          78, 136, 174, 223>>
    @@ <<<<112>>, <<162, 162, 163, 164>>, <<0, 1, 0, 1>>>>
       :> <<158, 66, 215, 136, 203, 183, 136, 64, 217, 44, 244, 38, 199,
          145, 127, 19, 136, 150, 215, 127, 158, 241, 209, 193, 238, 87, 1,
          144, 20, 69, 82, 134>>
    @@ <<<<112>>, <<162, 162, 163, 164, 165, 166, 167, 168, 169, 170, 171,
       172, 173, 174, 175, 176>>, <<0, 1, 0, 1>>>>
       :> <<30, 83, 45, 16, 180, 91, 2, 93, 181, 190, 142, 232, 9, 63, 50,
          125, 249, 213, 125, 200, 13, 167, 109, 104, 160, 232, 224, 186, 14,
          135, 106, 19>>
    @@ <<<<112>>, <<162, 162, 163, 164, 165, 166, 167, 168, 169, 170, 171,
       172, 173, 174, 175, 176, 177, 178, 179, 180, 181, 182, 183, 184, 185,
       186, 187, 188, 189, 190, 191, 192, 193, 194, 195, 196, 197, 198, 199,
       200, 201, 202, 203, 204, 205, 206, 207, 208, 209, 210, 211, 212, 213,
       214, 215, 216, 217, 218, 219, 220, 221, 222, 223, 224>>, <<0, 1, 0,
       1>>>>
       :> <<237, 11, 71, 116, 229, 121, 247, 59, 32, 23, 32, 99, 136, 75,
          23, 52, 255, 80, 255, 113, 52, 118, 108, 111, 54, 74, 205, 183, 3,
          126, 186, 172>>
    @@ <<<<112, 112>>, <<>>, <<0, 1, 0, 1>>>>
       :> <<42, 125, 232, 164, 104, 135, 173, 13, 76, 159, 254, 56, 143,
          255, 72, 253, 0, 32, 230, 176, 94, 165, 1, 16, 215, 143, 169, 211,
          41, 248, 246, 247>>
    @@ <<<<112, 112>>, <<17, 18, 19, 20, 21, 22, 23, 24, 25, 26, 27, 28, 29,
       30, 31, 32>>, <<0, 1, 0, 1>>>>
       :> <<35, 101, 12, 147, 213, 244, 126, 206, 240, 185, 78, 243, 50,
          174, 130, 57, 159, 215, 25, 169, 69, 197, 131, 195, 212, 188, 248,
          55, 12, 171, 186, 33>>
    @@ <<<<112, 112>>, <<33, 34, 35, 36, 37, 38, 39, 40, 41, 42, 43, 44, 45,
       46, 47, 48>>, <<0, 1, 0, 1>>>>
       :> <<169, 148, 68, 116, 162, 251, 190, 57, 160, 200, 48, 160, 109,
          68, 46, 0, 240, 194, 217, 160, 151, 14, 46, 166, 114, 14, 180, 198,
          51, 187, 223, 206>>
    @@ <<<<112, 112>>, <<161>>, <<0, 1, 0, 1>>>>
       :> <<50, 101, 91, 170, 106, 232, 48, 230, 231, 169, 30, 74, 186, 78,
          36, 144, 95, 122, 93, 178, 227, 217, 172, 209, 189, 127, 90, 141,
          25, 110, 87, 44>>
    @@ <<<<112, 112>>, <<161, 162>>, <<0, 1, 0, 1>>>>
       :> <<187, 15, 199, 113, 141, 75, 199, 61, 187, 42, 251, 31, 53, 138,
          228, 146, 167, 23, 173, 152, 222, 133, 25, 47, 132, 133, 207, 37,
          132, 208, 196, 49>>
    @@ <<<<112, 112>>, <<161, 162, 163>>, <<0, 1, 0, 1>>>>
       :> <<167, 83, 181, 159, 99, 193, 122, 214, 65, 171, 133, 189, 168,
          211, 175, 222, 145, 7, 22, 205, 155, 144, 221, 198, 241, 111, 28,
          55, 27, 172, 174, 236>>
    @@ <<<<112, 112>>, <<161, 162, 163, 164>>, <<0, 1, 0, 1>>>>
       :> <<162, 73, 101, 67, 80, 99, 21, 131, 218, 151, 147, 235, 128,
          246, 6, 96, 167, 164, 82, 197, 189, 3, 154, 117, 5, 177, 82, 247,
          250, 127, 204, 253>>
    @@ <<<<112, 112>>, <<161, 162, 163, 164, 165, 166, 167, 168, 169, 170,
       171, 172, 173, 174, 175, 176>>, <<0, 1, 0, 1>>>>
       :> <<7, 30, 238, 88, 208, 46, 208, 192, 62, 109, 31, 92, 57, 226,
          132, 74, 162, 240, 159, 172, 146, 41, 143, 49, 46, 230, 222, 237,
          28, 101, 66, 16>>
    @@ <<<<112, 112>>, <<161, 162, 163, 164, 165, 166, 167, 168, 169, 170,
       171, 172, 173, 174, 175, 176, 177, 178, 179, 180, 181, 182, 183, 184,
       185, 186, 187, 188, 189, 190, 191, 192, 193, 194, 195, 196, 197, 198,
       199, 200, 201, 202, 203, 204, 205, 206, 207, 208, 209, 210, 211, 212,
       213, 214, 215, 216, 217, 218, 219, 220, 221, 222, 223, 224>>, <<0, 1,
       0, 1>>>>
       :> <<83, 196, 42, 151, 147, 249, 199, 178, 182, 146, 68, 200, 231,
          226, 254, 46, 243, 57, 84, 154, 72, 35, 9, 175, 246, 242, 103, 36,
          206, 78, 126, 163>>
    @@ <<<<112, 112>>, <<161, 162, 163, 164, 165, 166, 167, 168, 169, 170,
       171, 172, 173, 174, 175, 176, 177, 178, 179, 180, 181, 182, 183, 184,
       185, 186, 187, 188, 189, 190, 191, 192, 193, 194, 195, 196, 197, 198,
       199, 200, 201, 202, 203, 204, 205, 206, 207, 208, 209, 210, 211, 212,
       213, 214, 215, 216, 217, 218, 219, 220, 221, 222, 223, 224, 225>>,
       <<0, 1, 0, 1>>>>
       :> <<230, 48, 50, 72, 190, 92, 185, 219, 152, 88, 243, 164, 49, 88,
          209, 43, 245, 102, 235, 206, 245, 50, 244, 111, 219, 67, 13, 200,
          228, 243, 222, 74>>
    @@ <<<<112, 112>>, <<162>>, <<0, 1, 0, 1>>>>
       :> <<54, 13, 75, 158, 221, 150, 91, 153, 190, 158, 86, 138, 253, 94,
          214, 229, 202, 234, 65, 53, 51, 138, 123, 87, 101, 44, 113, 19, 63,
          122, 232, 45>>
    @@ <<<<112, 112>>, <<162, 162>>, <<0, 1, 0, 1>>>>
       :> <<64, 169, 29, 241, 47, 16, 140, 126, 73, 163, 91, 118, 174, 33,
          33, 183, 153, 153, 16, 57, 246, 99, 180, 217, 68, 58, 134, 205, 13,
          15, 163, 177>>
    @@ <<<<112, 112>>, <<162, 162, 163>>, <<0, 1, 0, 1>>>>
       :> <<129, 253, 181, 68, 5, 151, 54, 36, 204, 24, 61, 18, 198, 53,
          160, 214, 96, 63, 110, 173, 138, 172, 29, 0, 35, 8, 81, 173, 202,
          81, 78, 150>>
    @@ <<<<112, 112>>, <<162, 162, 163, 164>>, <<0, 1, 0, 1>>>>
       :> <<143, 227, 187, 247, 252, 251, 119, 198, 28, 23, 94, 225, 100,
          43, 139, 168, 184, 139, 110, 120, 228, 134, 62, 43, 217, 248, 242,
          238, 224, 215, 251, 144>>
    @@ <<<<112, 112>>, <<162, 162, 163, 164, 165, 166, 167, 168, 169, 170,
       171, 172, 173, 174, 175, 176>>, <<0, 1, 0, 1>>>>
       :> <<14, 35, 170, 204, 212, 77, 38, 121, 52, 252, 185, 3, 138, 182,
          110, 23, 182, 152, 197, 30, 24, 8, 51, 213, 254, 241, 146, 69, 235,
          121, 217, 46>>
    @@ <<<<112, 112>>, <<162, 162, 163, 164, 165, 166, 167, 168, 169, 170,
       171, 172, 173, 174, 175, 176, 177, 178, 179, 180, 181, 182, 183, 184,
       185, 186, 187, 188, 189, 190, 191, 192, 193, 194, 195, 196, 197, 198,
       199, 200, 201, 202, 203, 204, 205, 206, 207, 208, 209, 210, 211, 212,
       213, 214, 215, 216, 217, 218, 219, 220, 221, 222, 223, 224>>, <<0, 1,
       0, 1>>>>
       :> <<127, 27, 119, 164, 152, 176, 154, 85, 212, 79, 50, 41, 65, 61,
          77, 241, 72, 191, 111, 195, 84, 237, 77, 65, 53, 74, 175, 116, 74,
          134, 91, 5>>

hashPW(password, salt, iter) ==
    LET rounds == Rounds(iter)
        args == <<password, salt, rounds>>
    IN IF args \in DOMAIN KnownKeys THEN KnownKeys[args]
       ELSE Key(password, salt, rounds)

(* subtle.ConstantTimeCompare(x, y) == 1 *)
ConstantTimeCompare(x, y) == Len(x) = Len(y) /\ x = y

----------------------------------------------------------------------------
(* Memory: named buffers and slices into them.                             *)
(* "a", "b", "salt", "hash" are the caller's buffers (the arguments it     *)
(* passed); "rsalt", "rhash", "out" are allocations made in the package.   *)

CallerBufs == {"a", "b", "salt", "hash"}
Bufs == CallerBufs \cup {"nil", "rsalt", "rhash", "out"}

EmptyHeap == [b \in Bufs |-> <<>>]

NilSlice == [buf |-> "nil", lo |-> 0, hi |-> 0]
(* b[lo:hi] of a whole buffer *)
Slice(b, lo, hi) == [buf |-> b, lo |-> lo, hi |-> hi]
Bytes(h, s) == SubSeq(h[s.buf], s.lo + 1, s.hi)
SliceLen(s) == s.hi - s.lo

(* The zero value of PWHash / PWDataV3 *)
ZeroRec == [ver |-> 0, prf |-> U32(0), iter |-> U32(0),
            salt |-> NilSlice, hash |-> NilSlice]

(* What a record holds: its five field values *)
RecVal(h, r) == [ver |-> r.ver, prf |-> r.prf, iter |-> r.iter,
                 salt |-> Bytes(h, r.salt), hash |-> Bytes(h, r.hash)]

----------------------------------------------------------------------------
(* Binary codec *)

(* PWHash.MarshalBinary and PWDataV3.pack: the same statements *)
MarshalBinary(h, r) ==
    <<r.ver>> \o PutUint32(r.prf) \o PutUint32(r.iter)
        \o PutUint32(U32(SliceLen(r.salt)))
        \o Bytes(h, r.salt) \o Bytes(h, r.hash)

pack(h, r) ==
    <<r.ver>> \o PutUint32(r.prf) \o PutUint32(r.iter)
        \o PutUint32(U32(SliceLen(r.salt)))
        \o Bytes(h, r.salt) \o Bytes(h, r.hash)

(* A result of a decoder: the error, the receiver and the memory after it *)
Res(e, r, h) == [err |-> e, rec |-> r, heap |-> h]

(* The length guard of PWHash.UnmarshalBinary *)
TooShort(a) == Len(a) < hdrLength

(* The range guards of PWHash.UnmarshalBinary *)
BadIter(iter) == U32Lt(iter, 1) \/ U32Gt(iter, MaxIter)
BadSaltLen(saltlen) == U32Lt(saltlen, 1) \/ U32Gt(saltlen, MaxSaltLen)

(* bytes.Clone of a[lo:hi] into the package's buffer b *)
Clone(h, b, a, lo, hi) == [h EXCEPT ![b] = SubSeq(a, lo + 1, hi)]

(* UnmarshalBinary storing each header field in the receiver as soon as it *)
(* is read, before the later checks                                        *)
UnmarshalBinaryInPlace(h, r, a) ==
    IF TooShort(a) THEN Res(ErrCorrupt, r, h)
    ELSE LET r1 == [r EXCEPT !.ver = a[1]] IN
    IF r1.ver # v3 THEN Res(ErrVersion, r1, h)
    ELSE LET r2 == [r1 EXCEPT !.prf = Uint32At(a, 1)] IN
    IF ~U32Eq(r2.prf, prfSHA256) THEN Res(ErrFunction, r2, h)
    ELSE LET r3 == [r2 EXCEPT !.iter = Uint32At(a, 1 + 4)] IN
    IF BadIter(r3.iter) THEN Res(ErrParameter, r3, h)
    ELSE LET saltlen == Uint32At(a, 1 + 4 + 4) IN
    IF BadSaltLen(saltlen) THEN Res(ErrParameter, r3, h)
    ELSE LET n == U32Val(saltlen) IN
    IF U32(hdrLength + n + sha256Size) # U32(Len(a)) THEN Res(ErrCorrupt, r3, h)
    ELSE LET h1 == Clone(h, "rsalt", a, hdrLength, hdrLength + n)
             h2 == Clone(h1, "rhash", a, hdrLength + n, Len(a))
         IN Res(ErrNil,
                [r3 EXCEPT !.salt = Slice("rsalt", 0, n),
                           !.hash = Slice("rhash", 0, Len(a) - (hdrLength + n))],
                h2)

(* PWHash.UnmarshalBinary(a) on receiver r; a is the caller's buffer "a".  *)
(* Every index expression is guarded as the run time guards it.            *)
UnmarshalBinary(h, r, a) ==
    IF TooShort(a) THEN Res(ErrCorrupt, r, h)
    ELSE IF Len(a) < 1 THEN Res(Panic, r, h)
    ELSE LET ver == a[1] IN
    IF ver # v3 THEN Res(ErrVersion, r, h)
    ELSE IF ~CanUint32(a, 1) THEN Res(Panic, r, h)
    ELSE LET prf == Uint32At(a, 1) IN
    IF ~U32Eq(prf, prfSHA256) THEN Res(ErrFunction, r, h)
    ELSE IF ~CanUint32(a, 1 + 4) THEN Res(Panic, r, h)
    ELSE LET iter == Uint32At(a, 1 + 4) IN
    IF BadIter(iter) THEN Res(ErrParameter, r, h)
    ELSE IF ~CanUint32(a, 1 + 4 + 4) THEN Res(Panic, r, h)
    ELSE LET saltlen == Uint32At(a, 1 + 4 + 4) IN
    IF BadSaltLen(saltlen) THEN Res(ErrParameter, r, h)
    ELSE LET n == U32Val(saltlen) IN
    IF U32(hdrLength + n + sha256Size) # U32(Len(a)) THEN Res(ErrCorrupt, r, h)
    ELSE IF hdrLength + n > Len(a) THEN Res(Panic, r, h)
    ELSE LET h1 == Clone(h, "rsalt", a, hdrLength, hdrLength + n)
             h2 == Clone(h1, "rhash", a, hdrLength + n, Len(a))
         IN Res(ErrNil,
                [ver |-> ver, prf |-> prf, iter |-> iter,
                 salt |-> Slice("rsalt", 0, n),
                 hash |-> Slice("rhash", 0, Len(a) - (hdrLength + n))],
                h2)

(* PWDataV3.unpack(a) on receiver r: fields are assigned as they are read, *)
(* and salt and hash are slices of the argument itself (buffer b).         *)
unpack(h, r, b) ==
    LET a == h[b] IN
    IF Len(a) < hdrLength THEN Res(ErrCorrupt, r, h)
    ELSE LET r1 == [r EXCEPT !.ver = a[1]] IN
    IF r1.ver # v3 THEN Res(ErrVersion, r1, h)
    ELSE IF ~CanUint32(a, 1) THEN Res(Panic, r1, h)
    ELSE LET r2 == [r1 EXCEPT !.prf = Uint32At(a, 1)] IN
    IF ~U32Eq(r2.prf, prfSHA256) THEN Res(ErrFunction, r2, h)
    ELSE IF ~CanUint32(a, 1 + 4) THEN Res(Panic, r2, h)
    ELSE LET r3 == [r2 EXCEPT !.iter = Uint32At(a, 1 + 4)] IN
    IF U32Gt(r3.iter, MaxIter) THEN Res(ErrParameter, r3, h)
    ELSE IF ~CanUint32(a, 1 + 4 + 4) THEN Res(Panic, r3, h)
    ELSE LET saltlen == Uint32At(a, 1 + 4 + 4) IN
    IF U32Gt(saltlen, MaxSaltLen) THEN Res(ErrParameter, r3, h)
    ELSE LET n == U32Val(saltlen) IN
    IF ~U32Gt(U32(Len(a)), hdrLength + n) THEN Res(ErrCorrupt, r3, h)
    ELSE Res(ErrNil,
             [r3 EXCEPT !.salt = Slice(b, hdrLength, hdrLength + n),
                        !.hash = Slice(b, hdrLength + n, Len(a))],
             h)

----------------------------------------------------------------------------
(* Text codec: base64.StdEncoding (standard alphabet, '=' padding, not     *)
(* strict), as the library decodes and encodes it.                         *)

PadChar == 61
NewLine == 10
CarriageReturn == 13
NoSextet == 255

(* Encoding.decodeMap: the sextet of a character, 255 for any other byte *)
decodeMap(c) ==
    IF c >= 65 /\ c <= 90 THEN c - 65
    ELSE IF c >= 97 /\ c <= 122 THEN c - 97 + 26
    ELSE IF c >= 48 /\ c <= 57 THEN c - 48 + 52
    ELSE IF c = 43 THEN 62
    ELSE IF c = 47 THEN 63
    ELSE NoSextet

(* The character of a sextet *)
encodeMap(x) ==
    IF x < 26 THEN 65 + x
    ELSE IF x < 52 THEN 97 + (x - 26)
    ELSE IF x < 62 THEN 48 + (x - 52)
    ELSE IF x = 62 THEN 43
    ELSE 47

IsNewline(c) == c = NewLine \/ c = CarriageReturn

(* "skip over newlines": the first index >= si (0-based) that holds none *)
RECURSIVE SkipNewlines(_, _)
SkipNewlines(src, si) ==
    IF si < Len(src) /\ IsNewline(src[si + 1])
    THEN SkipNewlines(src, si + 1)
    ELSE si

(* The bytes of a quantum of dlen sextets (dlen in 2..4): dlen - 1 bytes *)
QuantumBytes(dbuf, dlen) ==
    LET s == dbuf \o Zeros(4 - Len(dbuf))
        b0 == s[1] * 4 + s[2] \div 16
        b1 == (s[2] % 16) * 16 + s[3] \div 4
        b2 == (s[3] % 4) * 64 + s[4]
    IN Take(<<b0, b1, b2>>, dlen - 1)

(* A result of decodeQuantum: the next index, the bytes, the error and    *)
(* the input offset it names.                                              *)
QRes(si, out, e, at) == [nsi |-> si, out |-> out, err |-> e, at |-> at]

(* Encoding.decodeQuantum(dst, src, si), entered with j sextets in dbuf *)
RECURSIVE decodeQuantum(_, _, _)
decodeQuantum(src, si, dbuf) ==
    LET j == Len(dbuf) IN
    IF j = 4 THEN QRes(si, QuantumBytes(dbuf, 4), ErrNil, 0)
    ELSE IF si = Len(src) THEN
        (IF j = 0 THEN QRes(si, <<>>, ErrNil, 0)
         ELSE QRes(si, <<>>, ErrBase64, si - j))
    ELSE LET in == src[si + 1]
             out == decodeMap(in)
         IN
    IF out # NoSextet THEN decodeQuantum(src, si + 1, Append(dbuf, out))
    ELSE IF IsNewline(in) THEN decodeQuantum(src, si + 1, dbuf)
    ELSE IF in # PadChar THEN QRes(si + 1, <<>>, ErrBase64, si)
    ELSE IF j < 2 THEN QRes(si + 1, <<>>, ErrBase64, si)
    ELSE LET s1 == SkipNewlines(src, si + 1) IN
    IF j = 2 /\ s1 = Len(src) THEN QRes(s1, <<>>, ErrBase64, Len(src))
    ELSE IF j = 2 /\ src[s1 + 1] # PadChar THEN QRes(s1, <<>>, ErrBase64, s1 - 1)
    ELSE LET s2 == IF j = 2 THEN s1 + 1 ELSE si + 1
             s3 == SkipNewlines(src, s2)
         IN IF s3 < Len(src)
            THEN QRes(s3, QuantumBytes(dbuf, j), ErrBase64, s3)
            ELSE QRes(s3, QuantumBytes(dbuf, j), ErrNil, 0)

(* Encoding.Decode / DecodeString: quanta until the input ends or one     *)
(* fails; [out, err, at].                                                  *)
RECURSIVE DecodeFrom(_, _, _)
DecodeFrom(src, si, acc) ==
    IF si >= Len(src) THEN [out |-> acc, err |-> ErrNil, at |-> 0]
    ELSE LET q == decodeQuantum(src, si, <<>>) IN
         IF q.err # ErrNil
         THEN [out |-> acc \o q.out, err |-> q.err, at |-> q.at]
         ELSE DecodeFrom(src, q.nsi, acc \o q.out)

Base64Decode(src) == DecodeFrom(src, 0, <<>>)

(* Encoding.Encode / EncodeToString *)
RECURSIVE EncodeFrom(_, _)
EncodeFrom(p, i) ==
    LET n == Len(p) - i IN
    IF n <= 0 THEN <<>>
    ELSE LET b0 == p[i + 1]
             b1 == IF n >= 2 THEN p[i + 2] ELSE 0
             b2 == IF n >= 3 THEN p[i + 3] ELSE 0
             c0 == encodeMap(b0 \div 4)
             c1 == encodeMap((b0 % 4) * 16 + b1 \div 16)
             c2 == encodeMap((b1 % 16) * 4 + b2 \div 64)
             c3 == encodeMap(b2 % 64)
         IN IF n >= 3 THEN <<c0, c1, c2, c3>> \o EncodeFrom(p, i + 3)
            ELSE IF n = 2 THEN <<c0, c1, c2, PadChar>>
            ELSE <<c0, c1, PadChar, PadChar>>

Base64Encode(p) == EncodeFrom(p, 0)

----------------------------------------------------------------------------
(* PWHash: construction, verification, text codec *)

(* A read of the random source: it fails, or fills the salt *)
RandFail == [err |-> TRUE, bytes |-> <<>>]
RandOk(bytes) == [err |-> FALSE, bytes |-> bytes]

(* The stored fields of a record made from a password *)
FromPassword(iter) ==
    [ver |-> v3, prf |-> U32(prfSHA256), iter |-> Uint32OfInt(iter),
     salt |-> Slice("rsalt", 0, DefaultSaltLen),
     hash |-> Slice("rhash", 0, sha256Size)]

(* New(pw, iter) of PWHash: (nil, error) leaves the caller's record alone *)
NewPWHash(h, r, pw, iter, rnd) ==
    IF rnd.err THEN Res(ErrSalt, r, h)
    ELSE Res(ErrNil, FromPassword(iter),
             [h EXCEPT !["rsalt"] = rnd.bytes,
                       !["rhash"] = hashPW(pw, rnd.bytes, iter)])

(* PWHash.Verify *)
Verify(h, r, pw) ==
    LET dk == hashPW(pw, Bytes(h, r.salt), IntOfUint32(r.iter))
    IN ConstantTimeCompare(Bytes(h, r.hash), dk)

(* PWHash.UnmarshalText *)
UnmarshalText(h, r, text) ==
    LET dec == Base64Decode(text) IN
    IF dec.err # ErrNil THEN Res(dec.err, r, h)
    ELSE UnmarshalBinary(h, r, dec.out)

(* PWHash.MarshalText *)
MarshalText(h, r) == Base64Encode(MarshalBinary(h, r))

----------------------------------------------------------------------------
(* PWDataV3: construction, verification, text codec *)

(* New(salt, iter, hash) of PWDataV3; the arguments are the caller's      *)
(* buffers "salt" and "hash".                                              *)
NewPWDataV3(h, iter) ==
    Res(ErrNil,
        [ver |-> v3, prf |-> U32(prfSHA256), iter |-> Uint32OfInt(iter),
         salt |-> Slice("rsalt", 0, Len(h["salt"])),
         hash |-> Slice("rhash", 0, Len(h["hash"]))],
        [h EXCEPT !["rsalt"] = h["salt"], !["rhash"] = h["hash"]])

(* NewFromPassword(pw, iter) *)
NewFromPassword(h, r, pw, iter, rnd) ==
    IF rnd.err THEN Res(ErrSalt, r, h)
    ELSE Res(ErrNil, FromPassword(iter),
             [h EXCEPT !["rsalt"] = rnd.bytes,
                       !["rhash"] = hashPW(pw, rnd.bytes, iter)])

(* PWDataV3.VerifyPassword *)
VerifyPassword(h, r, pw) ==
    LET dk == hashPW(pw, Bytes(h, r.salt), IntOfUint32(r.iter))
    IN ConstantTimeCompare(Bytes(h, r.hash), dk)

(* fromBase64(s): the record is a fresh one over the decoded buffer "out"; *)
(* (nil, error) is the zero record with the error.                         *)
fromBase64(h, s) ==
    LET dec == Base64Decode(s) IN
    IF dec.err # ErrNil THEN Res(dec.err, ZeroRec, h)
    ELSE LET u == unpack([h EXCEPT !["out"] = dec.out], ZeroRec, "out") IN
         IF u.err # ErrNil THEN Res(u.err, ZeroRec, h) ELSE u

(* PWDataV3.toBase64 *)
toBase64(h, r) == Base64Encode(pack(h, r))

(* Must(NewFromPassword(...)): panics on the error *)
Must(res) == IF res.err # ErrNil THEN [res EXCEPT !.err = Panic] ELSE res

(* VerifyHash(hash, pw): [ok, err]; err = Panic when the call panics *)
VerifyHash(h, hash, pw, rnd) ==
    LET r == fromBase64(h, hash) IN
    IF r.err # ErrNil THEN
        LET n == Must(NewFromPassword(h, ZeroRec, <<>>, IntOf(DefaultIter), rnd)) IN
        IF n.err = Panic THEN [ok |-> FALSE, err |-> Panic]
        ELSE [ok |-> ~ConstantTimeCompare(Bytes(n.heap, n.rec.hash),
                                          Bytes(n.heap, n.rec.hash)),
              err |-> r.err]
    ELSE [ok |-> ConstantTimeCompare(
                     Bytes(r.heap, r.rec.hash),
                     hashPW(pw, Bytes(r.heap, r.rec.salt), IntOfUint32(r.rec.iter))),
          err |-> ErrNil]

----------------------------------------------------------------------------
(* Bounds of the inputs *)

(* Passwords are strings over PwChars of at most MaxPwLen characters *)
MaxPwLen == 1
(* The random source has NSalts different salts to give *)
NSalts == 1
(* Declared salt lengths 0..MaxLowSalt, besides those at the upper limit *)
MaxLowSalt == 3
(* A payload is up to ExtraLen bytes shorter or longer than declared *)
ExtraLen == 1
(* Up to MaxCut characters are cut from a text, up to MaxAppend appended *)
MaxCut == 4
MaxAppend == 4

----------------------------------------------------------------------------
(* Inputs *)

PwChars == {112}
RECURSIVE StringsUpTo(_, _)
StringsUpTo(chars, n) ==
    IF n = 0 THEN {<<>>}
    ELSE LET shorter == StringsUpTo(chars, n - 1)
         IN shorter \cup {Append(w, c) : w \in shorter, c \in chars}
Passwords == StringsUpTo(PwChars, MaxPwLen)
(* The password that the valid inputs below were hashed from *)
Pw0 == <<112>>

(* Iteration counts handed to the constructors: 0, 1, the default, one     *)
(* past the decoder's limit, -1 and 2^32 + 1.                              *)
MinusOne == <<65535, 65535, 65535, 65535>>
TwoTo32Plus1 == <<0, 1, 0, 1>>
IterArgs == {IntOf(0), IntOf(1), IntOf(DefaultIter), IntOf(MaxIter + 1),
             MinusOne, TwoTo32Plus1}

RandomSalt(k) == [i \in 1..DefaultSaltLen |-> (16 * k + i) % 256]
RandomReads == {RandFail} \cup {RandOk(RandomSalt(k)) : k \in 1..NSalts}

(* Wire values of the header fields, on both sides of every limit *)
AllOnes == <<65535, 65535>>
Vers == {0, v3, 2}
Prfs == {U32(0), U32(prfSHA256), <<256, 1>>}
WireIters == {U32(0), U32(1), U32(MaxIter), U32(MaxIter + 1)}
WireSaltLens == {U32(n) : n \in (0..MaxLowSalt) \cup {MaxSaltLen, MaxSaltLen + 1}}

(* The four bytes of a 32-bit field on the wire, most significant first *)
Wire32(u) == <<u[1] \div 256, u[1] % 256, u[2] \div 256, u[2] % 256>>
Header(ver, prf, iter, saltlen) ==
    <<ver>> \o Wire32(prf) \o Wire32(iter) \o Wire32(saltlen)

SaltFill(n) == [i \in 1..n |-> (160 + i) % 256]
(* s cut or padded (with 0xEE) to n bytes *)
Resize(s, n) == IF n <= Len(s) THEN Take(s, n)
                ELSE s \o [i \in 1..(n - Len(s)) |-> 238]

(* A salt of n bytes and the key of Pw0 for it, the key resized by delta *)
Payload(iter, n, delta) ==
    SaltFill(n) \o Resize(hashPW(Pw0, SaltFill(n), IntOfUint32(iter)),
                          sha256Size + delta)

(* The salt bytes a header declares, none for an absurd declaration *)
Declared(saltlen) ==
    IF U32Gt(saltlen, MaxSaltLen + 1) THEN 0 ELSE U32Val(saltlen)

(* The byte arrays handed to the binary decoders *)
GridBytes ==
    UNION {{Header(ver, prf, iter, saltlen)}
           \cup {Header(ver, prf, iter, saltlen)
                     \o Payload(iter, Declared(saltlen), delta) :
                 delta \in (0 - ExtraLen)..ExtraLen} :
           ver \in Vers, prf \in Prfs, iter \in WireIters, saltlen \in WireSaltLens}

ValidHeader == Header(v3, U32(prfSHA256), U32(DefaultIter), U32(DefaultSaltLen))
SpecialBytes ==
    {Take(ValidHeader, k) : k \in 0..(hdrLength - 1)}
    \cup {ValidHeader \o Payload(U32(DefaultIter), DefaultSaltLen, 0)}
    \cup {Header(v3, U32(prfSHA256), AllOnes, U32(1)) \o Payload(U32(1), 1, 0),
          Header(v3, U32(prfSHA256), U32(1), AllOnes) \o Payload(U32(1), 1, 0),
          Header(v3, AllOnes, U32(1), U32(1)) \o Payload(U32(1), 1, 0),
          Header(255, U32(prfSHA256), U32(1), U32(1)) \o Payload(U32(1), 1, 0)}

InputBytes == GridBytes \cup SpecialBytes

(* Texts: the encodings of well-formed arrays with every padding shape,    *)
(* and of one the decoders reject; each as it is, with its last characters *)
(* cut, or with characters appended.                                       *)
TextBases ==
    {Base64Encode(Header(v3, U32(prfSHA256), iter, U32(n)) \o Payload(iter, n, 0)) :
         iter \in {U32(1), U32(DefaultIter)},
         n \in (1..MaxLowSalt) \cup {DefaultSaltLen}}
    \cup {Base64Encode(Header(2, U32(prfSHA256), U32(1), U32(1)) \o Payload(U32(1), 1, 0))}

AppendChars == {63, 65, PadChar, NewLine}
Repeat(c, k) == [i \in 1..k |-> c]
Suffixes == {Repeat(c, k) : c \in AppendChars, k \in 1..MaxAppend}
Truncations(t) == {Take(t, Len(t) - k) : k \in 1..MaxCut}
Extensions(t) == {t \o x : x \in Suffixes}
Variants(t) == {t} \cup Truncations(t) \cup Extensions(t)

----------------------------------------------------------------------------
(* The state machine: a caller that holds one record (pd of type PWHash,   *)
(* or d of type PWDataV3), makes one call at a time and looks at what the  *)
(* call returned (last) before the next.                                   *)

ZeroVal == RecVal(EmptyHeap, ZeroRec)

Idle == [op |-> "idle", form |-> "", a |-> <<>>, text |-> <<>>, base |-> <<>>,
         pw |-> <<>>, iter |-> IntOf(0), rnd |-> RandFail,
         err |-> ErrNil, ok |-> FALSE, out |-> <<>>, rec |-> ZeroVal]

(* The frame of a call of VerifyHash(hash, pw) that runs statement by       *)
(* statement: pc is the statement it is at, d and err what fromBase64       *)
(* returned (d the record NewFromPassword made, on the error path), rnd     *)
(* what the random source gave, dk the derived key, ok the first result,    *)
(* kdf and cmp the arguments of its calls of hashPW and ConstantTimeCompare,*)
(* steps the names of those calls in the order they were made.              *)
NoKey == [pw |-> <<>>, salt |-> <<>>, iter |-> IntOf(0)]
NoCompare == [x |-> <<>>, y |-> <<>>]
VerifyHashIdle ==
    [pc |-> "idle", hash |-> <<>>, base |-> <<>>, pw |-> <<>>, rnd |-> RandFail,
     d |-> ZeroVal, err |-> ErrNil, dk |-> <<>>, ok |-> FALSE,
     kdf |-> NoKey, cmp |-> NoCompare, steps |-> <<>>]

Init ==
    /\ prog \in {"pwhash", "pwdatav3"}
    /\ pd = ZeroRec
    /\ d = ZeroRec
    /\ heap = EmptyHeap
    /\ last = Idle
    /\ vh = VerifyHashIdle

(* Buffers no record refers to are the garbage collector's *)
Reclaim(h, r1, r2) ==
    [b \in Bufs |->
        IF b \in {r1.salt.buf, r1.hash.buf, r2.salt.buf, r2.hash.buf}
        THEN h[b] ELSE <<>>]

(* The record the caller holds *)
Cur == IF prog = "pwhash" THEN pd ELSE d

IsHash == prog = "pwhash" /\ last.op = "idle"
IsData == prog = "pwdatav3" /\ last.op = "idle"

(* pd, err := New(pw, iter); the caller keeps its record when New fails *)
CallNew ==
    /\ IsHash
    /\ \E pw \in Passwords, iter \in IterArgs, rnd \in RandomReads :
         LET res == NewPWHash(heap, pd, pw, iter, rnd) IN
         /\ pd' = res.rec
         /\ heap' = Reclaim(res.heap, res.rec, ZeroRec)
         /\ last' = [Idle EXCEPT !.op = "New", !.pw = pw, !.iter = iter,
                                 !.rnd = rnd, !.err = res.err,
                                 !.rec = RecVal(res.heap, res.rec)]
    /\ UNCHANGED <<prog, d, vh>>

(* err := pd.UnmarshalBinary(a), a in the caller's buffer "a" *)
CallUnmarshalBinary ==
    /\ IsHash
    /\ \E a \in InputBytes :
         LET res == UnmarshalBinary([heap EXCEPT !["a"] = a], pd, a) IN
         /\ pd' = res.rec
         /\ heap' = res.heap
         /\ last' = [Idle EXCEPT !.op = "UnmarshalBinary", !.a = a,
                                 !.err = res.err,
                                 !.rec = RecVal(res.heap, res.rec)]
    /\ UNCHANGED <<prog, d, vh>>

(* err := pd.UnmarshalText(text) *)
CallUnmarshalText ==
    /\ IsHash
    /\ \E base \in TextBases : \E text \in Variants(base) :
         LET res == UnmarshalText(heap, pd, text) IN
         /\ pd' = res.rec
         /\ heap' = res.heap
         /\ last' = [Idle EXCEPT !.op = "UnmarshalText", !.text = text,
                                 !.base = base, !.err = res.err,
                                 !.rec = RecVal(res.heap, res.rec)]
    /\ UNCHANGED <<prog, d, vh>>

(* out, _ := pd.MarshalBinary() *)
CallMarshalBinary ==
    /\ IsHash
    /\ last' = [Idle EXCEPT !.op = "MarshalBinary",
                            !.out = MarshalBinary(heap, pd),
                            !.rec = RecVal(heap, pd)]
    /\ UNCHANGED <<prog, pd, d, heap, vh>>

(* The encoding of pd decoded into a fresh record, as binary               *)
(* (MarshalBinary, UnmarshalBinary) or as text (MarshalText, UnmarshalText)*)
CallReload ==
    /\ IsHash
    /\ \E form \in {"binary", "text"} :
         LET enc == IF form = "binary" THEN MarshalBinary(heap, pd)
                    ELSE MarshalText(heap, pd)
             res == IF form = "binary" THEN UnmarshalBinary(heap, ZeroRec, enc)
                    ELSE UnmarshalText(heap, ZeroRec, enc)
         IN last' = [Idle EXCEPT !.op = "Reload", !.form = form,
                                 !.out = enc, !.err = res.err,
                                 !.rec = RecVal(res.heap, res.rec)]
    /\ UNCHANGED <<prog, pd, d, heap, vh>>

(* ok := pd.Verify(pw) *)
CallVerify ==
    /\ IsHash
    /\ \E pw \in Passwords :
         last' = [Idle EXCEPT !.op = "Verify", !.pw = pw,
                              !.ok = Verify(heap, pd, pw),
                              !.rec = RecVal(heap, pd)]
    /\ UNCHANGED <<prog, pd, d, heap, vh>>

(* salt, hash: the arguments of the low-level New *)
SaltArgs == {SaltFill(n) : n \in 0..MaxLowSalt}
HashArgs(salt, iter) ==
    {Resize(hashPW(Pw0, salt, iter), sha256Size + delta) : delta \in {0 - ExtraLen, 0}}

(* d := New(salt, iter, hash), the arguments in the caller's buffers; the  *)
(* record d held before is garbage from here on, and so are its buffers.   *)
CallNewData ==
    /\ IsData
    /\ \E salt \in SaltArgs, iter \in IterArgs :
       \E hash \in HashArgs(salt, iter) :
         LET res == NewPWDataV3([EmptyHeap EXCEPT !["salt"] = salt,
                                                  !["hash"] = hash], iter)
         IN
         /\ d' = res.rec
         /\ heap' = res.heap
         /\ last' = [Idle EXCEPT !.op = "NewData", !.iter = iter,
                                 !.err = res.err,
                                 !.rec = RecVal(res.heap, res.rec)]
    /\ UNCHANGED <<prog, pd, vh>>

(* d, err := NewFromPassword(pw, iter) *)
CallNewFromPassword ==
    /\ IsData
    /\ \E pw \in Passwords, iter \in IterArgs, rnd \in RandomReads :
         LET res == NewFromPassword(heap, d, pw, iter, rnd) IN
         /\ d' = res.rec
         /\ heap' = Reclaim(res.heap, ZeroRec, res.rec)
         /\ last' = [Idle EXCEPT !.op = "NewFromPassword", !.pw = pw,
                                 !.iter = iter, !.rnd = rnd, !.err = res.err,
                                 !.rec = RecVal(res.heap, res.rec)]
    /\ UNCHANGED <<prog, pd, vh>>

(* var pwdata PWDataV3; err := pwdata.unpack(a), a in the caller's buffer  *)
(* "a"; the caller holds &pwdata from here on, whatever err is, as the     *)
(* tests' helper does.  unpack is not exported: its callers are that       *)
(* helper and fromBase64, and both call it on a record just declared.      *)
CallUnpack ==
    /\ IsData
    /\ \E a \in InputBytes :
         LET res == unpack([EmptyHeap EXCEPT !["a"] = a], ZeroRec, "a") IN
         /\ d' = res.rec
         /\ heap' = res.heap
         /\ last' = [Idle EXCEPT !.op = "unpack", !.a = a, !.err = res.err,
                                 !.rec = RecVal(res.heap, res.rec)]
    /\ UNCHANGED <<prog, pd, vh>>

(* The package-level functions read no record: the caller calls them with  *)
(* none in hand.                                                           *)
NoRecord == d = ZeroRec

(* x, err := fromBase64(text) *)
CallFromBase64 ==
    /\ IsData
    /\ NoRecord
    /\ \E base \in TextBases : \E text \in Variants(base) :
         LET res == fromBase64(heap, text) IN
         last' = [Idle EXCEPT !.op = "fromBase64", !.text = text,
                              !.base = base, !.err = res.err,
                              !.rec = RecVal(res.heap, res.rec)]
    /\ UNCHANGED <<prog, pd, d, heap, vh>>

(* out := d.pack() *)
CallPack ==
    /\ IsData
    /\ last' = [Idle EXCEPT !.op = "pack", !.out = pack(heap, d),
                            !.rec = RecVal(heap, d)]
    /\ UNCHANGED <<prog, pd, d, heap, vh>>

(* The encoding of d decoded into a fresh record, as binary (pack, unpack) *)
(* or as text (toBase64, fromBase64)                                       *)
CallReloadData ==
    /\ IsData
    /\ \E form \in {"binary", "text"} :
         LET enc == IF form = "binary" THEN pack(heap, d) ELSE toBase64(heap, d)
             res == IF form = "binary"
                    THEN unpack([heap EXCEPT !["out"] = enc], ZeroRec, "out")
                    ELSE fromBase64(heap, enc)
         IN last' = [Idle EXCEPT !.op = "Reload", !.form = form,
                                 !.out = enc, !.err = res.err,
                                 !.rec = RecVal(res.heap, res.rec)]
    /\ UNCHANGED <<prog, pd, d, heap, vh>>

(* ok := d.VerifyPassword(pw) *)
CallVerifyPassword ==
    /\ IsData
    /\ \E pw \in Passwords :
         last' = [Idle EXCEPT !.op = "VerifyPassword", !.pw = pw,
                              !.ok = VerifyPassword(heap, d, pw),
                              !.rec = RecVal(heap, d)]
    /\ UNCHANGED <<prog, pd, d, heap, vh>>

(* ok, err := VerifyHash(text, pw) *)
CallVerifyHash ==
    /\ IsData
    /\ NoRecord
    /\ \E base \in TextBases : \E text \in Variants(base) :
       \E pw \in Passwords, rnd \in RandomReads :
         LET res == VerifyHash(heap, text, pw, rnd) IN
         last' = [Idle EXCEPT !.op = "VerifyHash", !.text = text,
                              !.base = base, !.pw = pw, !.rnd = rnd,
                              !.ok = res.ok, !.err = res.err]
    /\ UNCHANGED <<prog, pd, d, heap, vh>>

(* After a call that made a record from the caller's buffers, the caller   *)
(* changes a byte of one of them.                                          *)
MadeFromBuffers ==
    /\ last.op \in {"UnmarshalBinary", "unpack", "NewData"}
    /\ last.err = ErrNil

WriteAt(buf) == {i \in {1, hdrLength + 1, Len(buf)} : 1 <= i /\ i <= Len(buf)}

CallerWrite ==
    /\ MadeFromBuffers
    /\ \E b \in CallerBufs : \E i \in WriteAt(heap[b]) :
         heap' = [heap EXCEPT ![b][i] = (@ + 1) % 256]
    /\ last' = [last EXCEPT !.op = "write"]
    /\ UNCHANGED <<prog, pd, d, vh>>

(* The caller is done with the result of the call (or with its write) and  *)
(* keeps the record it holds; buffers no record refers to are garbage.     *)
Return ==
    /\ last.op # "idle"
    /\ last' = Idle
    /\ heap' = Reclaim(heap, pd, d)
    /\ UNCHANGED <<prog, pd, d, vh>>

(* var pwd PWHash / var pwdata PWDataV3: the caller declares a new record  *)
(* and lets go of the one it held.                                         *)
Declare ==
    /\ last.op = "idle"
    /\ Cur # ZeroRec
    /\ pd' = ZeroRec
    /\ d' = ZeroRec
    /\ heap' = EmptyHeap
    /\ UNCHANGED <<prog, last, vh>>

Next ==
    \/ CallNew
    \/ CallUnmarshalBinary
    \/ CallUnmarshalText
    \/ CallMarshalBinary
    \/ CallReload
    \/ CallVerify
    \/ CallNewData
    \/ CallNewFromPassword
    \/ CallUnpack
    \/ CallFromBase64
    \/ CallPack
    \/ CallReloadData
    \/ CallVerifyPassword
    \/ CallVerifyHash
    \/ CallerWrite
    \/ Return
    \/ Declare

Spec == Init /\ [][Next]_vars

----------------------------------------------------------------------------
(* VerifyHash statement by statement.  In Spec a call of VerifyHash is one *)
(* step; here each statement of its body (and of NewFromPassword and Must, *)
(* which it calls on the error path) is a step of its own, so that the     *)
(* order of its key derivation, its comparison and its return shows.       *)

(* if err != nil: the statement VerifyHash goes to after fromBase64 *)
AfterFromBase64ReturnErr(err) == IF err # ErrNil THEN "return" ELSE "hashPW"

AfterFromBase64(err) == IF err # ErrNil THEN "NewFromPassword" ELSE "hashPW"

(* The caller calls VerifyHash(hash, pw) *)
VHCall ==
    /\ prog = "pwdatav3"
    /\ NoRecord
    /\ vh.pc \in {"idle", "returned"}
    /\ \E base \in TextBases : \E text \in Variants(base) : \E pw \in Passwords :
         vh' = [VerifyHashIdle EXCEPT !.pc = "fromBase64", !.hash = text,
                                      !.base = base, !.pw = pw]
    /\ last' = Idle
    /\ UNCHANGED <<prog, pd, d, heap>>

(* d, err := fromBase64(hash); if err != nil *)
VHFromBase64 ==
    /\ vh.pc = "fromBase64"
    /\ LET res == fromBase64(heap, vh.hash) IN
       vh' = [vh EXCEPT !.pc = AfterFromBase64(res.err), !.err = res.err,
                        !.d = RecVal(res.heap, res.rec)]
    /\ UNCHANGED <<prog, pd, d, heap, last>>

(* NewFromPassword("", DefaultIter) makes its salt: io.ReadFull fails, and *)
(* NewFromPassword returns the error to Must, or fills the salt.           *)
VHReadFull ==
    /\ vh.pc = "NewFromPassword"
    /\ \E rnd \in RandomReads :
         vh' = [vh EXCEPT !.rnd = rnd,
                          !.pc = IF rnd.err THEN "Must" ELSE "NewFromPassword.hashPW"]
    /\ UNCHANGED <<prog, pd, d, heap, last>>

(* Must(nil, err): panic(err); the call of VerifyHash ends without return *)
VHMustPanics ==
    /\ vh.pc = "Must"
    /\ LET n == Must(NewFromPassword(heap, ZeroRec, <<>>, IntOf(DefaultIter), vh.rnd)) IN
       /\ n.err = Panic
       /\ vh' = [vh EXCEPT !.pc = "panicked"]
       /\ last' = [Idle EXCEPT !.op = "VerifyHash", !.text = vh.hash,
                               !.base = vh.base, !.pw = vh.pw, !.rnd = vh.rnd,
                               !.ok = FALSE, !.err = n.err]
    /\ UNCHANGED <<prog, pd, d, heap>>

(* NewFromPassword: dk := hashPW(pw, salt, iter), the record; Must hands   *)
(* it to VerifyHash as d.                                                  *)
VHNewFromPasswordKey ==
    /\ vh.pc = "NewFromPassword.hashPW"
    /\ LET n == Must(NewFromPassword(heap, ZeroRec, <<>>, IntOf(DefaultIter), vh.rnd))
           v == RecVal(n.heap, n.rec)
       IN
       /\ n.err = ErrNil
       /\ vh' = [vh EXCEPT !.pc = "compare.d.hash", !.d = v, !.dk = v.hash,
                           !.kdf = [pw |-> <<>>, salt |-> vh.rnd.bytes,
                                    iter |-> IntOf(DefaultIter)],
                           !.steps = Append(@, "hashPW")]
    /\ UNCHANGED <<prog, pd, d, heap, last>>

(* return subtle.ConstantTimeCompare(d.hash, d.hash) != 1, err: the values *)
VHCompareSelf ==
    /\ vh.pc = "compare.d.hash"
    /\ vh' = [vh EXCEPT !.pc = "return",
                        !.ok = ~ConstantTimeCompare(vh.d.hash, vh.d.hash),
                        !.cmp = [x |-> vh.d.hash, y |-> vh.d.hash],
                        !.steps = Append(@, "ConstantTimeCompare")]
    /\ UNCHANGED <<prog, pd, d, heap, last>>

(* dk := hashPW(pw, d.salt, int(d.iter)) *)
VHhashPW ==
    /\ vh.pc = "hashPW"
    /\ vh' = [vh EXCEPT !.pc = "compare.dk",
                        !.dk = hashPW(vh.pw, vh.d.salt, IntOfUint32(vh.d.iter)),
                        !.kdf = [pw |-> vh.pw, salt |-> vh.d.salt,
                                 iter |-> IntOfUint32(vh.d.iter)],
                        !.steps = Append(@, "hashPW")]
    /\ UNCHANGED <<prog, pd, d, heap, last>>

(* return subtle.ConstantTimeCompare(d.hash, dk) == 1, nil: the values *)
VHCompare ==
    /\ vh.pc = "compare.dk"
    /\ vh' = [vh EXCEPT !.pc = "return",
                        !.ok = ConstantTimeCompare(vh.d.hash, vh.dk),
                        !.err = ErrNil,
                        !.cmp = [x |-> vh.d.hash, y |-> vh.dk],
                        !.steps = Append(@, "ConstantTimeCompare")]
    /\ UNCHANGED <<prog, pd, d, heap, last>>

(* VerifyHash returns (ok, err) to its caller *)
VHReturn ==
    /\ vh.pc = "return"
    /\ vh' = [vh EXCEPT !.pc = "returned"]
    /\ last' = [Idle EXCEPT !.op = "VerifyHash", !.text = vh.hash,
                            !.base = vh.base, !.pw = vh.pw, !.rnd = vh.rnd,
                            !.ok = vh.ok, !.err = vh.err]
    /\ UNCHANGED <<prog, pd, d, heap>>

InitVH == Init /\ prog = "pwdatav3"

NextVH ==
    \/ VHCall
    \/ VHFromBase64
    \/ VHReadFull
    \/ VHMustPanics
    \/ VHNewFromPasswordKey
    \/ VHCompareSelf
    \/ VHhashPW
    \/ VHCompare
    \/ VHReturn

SpecVH == InitVH /\ [][NextVH]_vars

----------------------------------------------------------------------------
(* Arrays of 2^32 bytes and more.  A 64-bit build holds them, and the      *)
(* codec converts their lengths to 32 bits.  Such an array is not written  *)
(* out byte by byte: it is a sequence of pieces, each piece some bytes     *)
(* followed by a count of zero bytes, the count a Go int.  The codec on    *)
(* them is the codec above statement for statement, a length being a Go    *)
(* int and a record being its five field values.                            *)

(* Go ints from zero up *)
IntAdd(i, j) ==
    LET s4 == i[4] + j[4]
        s3 == i[3] + j[3] + s4 \div Limb
        s2 == i[2] + j[2] + s3 \div Limb
        s1 == i[1] + j[1] + s2 \div Limb
    IN <<s1 % Limb, s2 % Limb, s3 % Limb, s4 % Limb>>
IntLt(i, j) ==
    \/ i[1] < j[1]
    \/ i[1] = j[1] /\ i[2] < j[2]
    \/ i[1] = j[1] /\ i[2] = j[2] /\ i[3] < j[3]
    \/ i[1] = j[1] /\ i[2] = j[2] /\ i[3] = j[3] /\ i[4] < j[4]
(* i - j for j <= i *)
IntSub(i, j) ==
    LET d4 == i[4] - j[4]
        d3 == i[3] - j[3] - (IF d4 < 0 THEN 1 ELSE 0)
        d2 == i[2] - j[2] - (IF d3 < 0 THEN 1 ELSE 0)
        d1 == i[1] - j[1] - (IF d2 < 0 THEN 1 ELSE 0)
    IN <<(d1 + Limb) % Limb, (d2 + Limb) % Limb, (d3 + Limb) % Limb, (d4 + Limb) % Limb>>
(* The value of a Go int below 2^31 *)
IntVal(i) == i[3] * Limb + i[4]

Piece(bytes, zeros) == [bytes |-> bytes, zeros |-> zeros]
(* An array that is written out *)
Long(b) == IF b = <<>> THEN <<>> ELSE <<Piece(b, IntOf(0))>>

(* len(x) *)
RECURSIVE LongLen(_)
LongLen(x) ==
    IF x = <<>> THEN IntOf(0)
    ELSE IntAdd(IntAdd(IntOf(Len(x[1].bytes)), x[1].zeros), LongLen(Tail(x)))

(* x[i - 1] for 1 <= i <= len(x) *)
RECURSIVE LongByte(_, _)
LongByte(x, i) ==
    LET k == Len(x[1].bytes) IN
    IF i <= k THEN x[1].bytes[i]
    ELSE IF IntLt(IntOf(i - k - 1), x[1].zeros) THEN 0
    ELSE LongByte(Tail(x), i - k - IntVal(x[1].zeros))

(* x[lo:hi] written out, for hi <= len(x) *)
LongBytes(x, lo, hi) == [i \in 1..(hi - lo) |-> LongByte(x, lo + i)]

(* x[k:] for k <= len(x) *)
RECURSIVE LongFrom(_, _)
LongFrom(x, k) ==
    IF k = 0 THEN x
    ELSE LET p == x[1]
             n == Len(p.bytes)
         IN IF k < n THEN <<Piece(SubSeq(p.bytes, k + 1, n), p.zeros)>> \o Tail(x)
            ELSE IF IntLt(IntOf(k - n), p.zeros)
                 THEN <<Piece(<<>>, IntSub(p.zeros, IntOf(k - n)))>> \o Tail(x)
            ELSE LongFrom(Tail(x), k - n - IntVal(p.zeros))

(* The zero value of PWHash / PWDataV3, by value *)
ZeroLong == [ver |-> 0, prf |-> U32(0), iter |-> U32(0), salt |-> <<>>, hash |-> <<>>]

LongRes(e, r) == [err |-> e, rec |-> r]

(* PWHash.UnmarshalBinary(a) on receiver r *)
UnmarshalBinaryLong(r, a) ==
    LET len == LongLen(a) IN
    IF IntLt(len, IntOf(hdrLength)) THEN LongRes(ErrCorrupt, r)
    ELSE LET hdr == LongBytes(a, 0, hdrLength)
             ver == hdr[1]
             prf == Uint32At(hdr, 1)
             iter == Uint32At(hdr, 1 + 4)
             saltlen == Uint32At(hdr, 1 + 4 + 4)
             n == U32Val(saltlen)
         IN
    IF ver # v3 THEN LongRes(ErrVersion, r)
    ELSE IF ~U32Eq(prf, prfSHA256) THEN LongRes(ErrFunction, r)
    ELSE IF BadIter(iter) THEN LongRes(ErrParameter, r)
    ELSE IF BadSaltLen(saltlen) THEN LongRes(ErrParameter, r)
    ELSE IF U32(hdrLength + n + sha256Size) # Uint32OfInt(len)
         THEN LongRes(ErrCorrupt, r)
    ELSE IF IntLt(len, IntOf(hdrLength + n)) THEN LongRes(Panic, r)
    ELSE LongRes(ErrNil,
                 [ver |-> ver, prf |-> prf, iter |-> iter,
                  salt |-> Long(LongBytes(a, hdrLength, hdrLength + n)),
                  hash |-> LongFrom(a, hdrLength + n)])

(* PWDataV3.unpack(a) on receiver r *)
unpackLong(r, a) ==
    LET len == LongLen(a) IN
    IF IntLt(len, IntOf(hdrLength)) THEN LongRes(ErrCorrupt, r)
    ELSE LET hdr == LongBytes(a, 0, hdrLength)
             r1 == [r EXCEPT !.ver = hdr[1]]
             r2 == [r1 EXCEPT !.prf = Uint32At(hdr, 1)]
             r3 == [r2 EXCEPT !.iter = Uint32At(hdr, 1 + 4)]
             saltlen == Uint32At(hdr, 1 + 4 + 4)
             n == U32Val(saltlen)
         IN
    IF r1.ver # v3 THEN LongRes(ErrVersion, r1)
    ELSE IF ~U32Eq(r2.prf, prfSHA256) THEN LongRes(ErrFunction, r2)
    ELSE IF U32Gt(r3.iter, MaxIter) THEN LongRes(ErrParameter, r3)
    ELSE IF U32Gt(saltlen, MaxSaltLen) THEN LongRes(ErrParameter, r3)
    ELSE IF ~U32Gt(Uint32OfInt(len), hdrLength + n) THEN LongRes(ErrCorrupt, r3)
    ELSE IF IntLt(len, IntOf(hdrLength + n)) THEN LongRes(Panic, r3)
    ELSE LongRes(ErrNil,
                 [r3 EXCEPT !.salt = Long(LongBytes(a, hdrLength, hdrLength + n)),
                            !.hash = LongFrom(a, hdrLength + n)])

(* PWHash.MarshalBinary and PWDataV3.pack *)
MarshalBinaryLong(r) ==
    Long(<<r.ver>> \o PutUint32(r.prf) \o PutUint32(r.iter)
             \o PutUint32(Uint32OfInt(LongLen(r.salt))))
        \o r.salt \o r.hash

packLong(r) ==
    Long(<<r.ver>> \o PutUint32(r.prf) \o PutUint32(r.iter)
             \o PutUint32(Uint32OfInt(LongLen(r.salt))))
        \o r.salt \o r.hash

(* New(salt, iter, hash) of PWDataV3 *)
NewLong(salt, iter, hash) ==
    [ver |-> v3, prf |-> U32(prfSHA256), iter |-> Uint32OfInt(iter),
     salt |-> salt, hash |-> hash]

(* Inputs: every header above, followed by as many zero bytes as it        *)
(* declares, or by 2^32 more than that, up to ExtraLen fewer or more; the  *)
(* arrays above that hold a salt and a key, followed by 2^32 zero bytes;   *)
(* salts of one byte, of 2^32 bytes and of some more.                      *)
TwoTo32 == <<0, 1, 0, 0>>
LongTails(n) ==
    UNION {{IntOf(n + sha256Size + delta),
            IntAdd(TwoTo32, IntOf(n + sha256Size + delta))} :
           delta \in (0 - ExtraLen)..ExtraLen}
LongInputs ==
    UNION {{<<Piece(Header(ver, prf, iter, saltlen), tail)>> :
                tail \in LongTails(Declared(saltlen))}
           \cup {<<Piece(Header(ver, prf, iter, saltlen)
                             \o Payload(iter, Declared(saltlen), 0), TwoTo32)>>} :
           ver \in Vers, prf \in Prfs, iter \in WireIters, saltlen \in WireSaltLens}
LongSalts ==
    {Long(SaltFill(1)), <<Piece(SaltFill(1), IntSub(TwoTo32, IntOf(1)))>>}
    \cup {<<Piece(SaltFill(n), TwoTo32)>> : n \in 0..MaxLowSalt}
LongHashes == {Long(Resize(<<>>, sha256Size + delta)) : delta \in {0 - ExtraLen, 0}}

LongIdle == [op |-> "idle", a |-> <<>>, iter |-> IntOf(0), err |-> ErrNil,
             out |-> <<>>, rec |-> ZeroLong]

InitLong ==
    /\ prog \in {"pwhash", "pwdatav3"}
    /\ pd = ZeroRec
    /\ d = ZeroRec
    /\ heap = EmptyHeap
    /\ last = LongIdle
    /\ vh = VerifyHashIdle

(* var pwd PWHash; err := pwd.UnmarshalBinary(a); last.rec is pwd after it *)
CallUnmarshalBinaryLong ==
    /\ prog = "pwhash"
    /\ last.op = "idle"
    /\ \E a \in LongInputs :
         LET res == UnmarshalBinaryLong(ZeroLong, a) IN
         last' = [LongIdle EXCEPT !.op = "UnmarshalBinary", !.a = a,
                                  !.err = res.err, !.rec = res.rec]
    /\ UNCHANGED <<prog, pd, d, heap, vh>>

(* out, _ := pwd.MarshalBinary() of the record just decoded *)
CallMarshalBinaryLong ==
    /\ prog = "pwhash"
    /\ last.op = "UnmarshalBinary"
    /\ last.err = ErrNil
    /\ last' = [LongIdle EXCEPT !.op = "MarshalBinary", !.rec = last.rec,
                                !.out = MarshalBinaryLong(last.rec)]
    /\ UNCHANGED <<prog, pd, d, heap, vh>>

(* d := New(salt, iter, hash); last.rec is *d *)
CallNewLong ==
    /\ prog = "pwdatav3"
    /\ last.op = "idle"
    /\ \E salt \in LongSalts, iter \in IterArgs, hash \in LongHashes :
         last' = [LongIdle EXCEPT !.op = "New", !.iter = iter,
                                  !.rec = NewLong(salt, iter, hash)]
    /\ UNCHANGED <<prog, pd, d, heap, vh>>

(* var pwdata PWDataV3; err := pwdata.unpack(a) *)
CallUnpackLong ==
    /\ prog = "pwdatav3"
    /\ last.op = "idle"
    /\ \E a \in LongInputs :
         LET res == unpackLong(ZeroLong, a) IN
         last' = [LongIdle EXCEPT !.op = "unpack", !.a = a,
                                  !.err = res.err, !.rec = res.rec]
    /\ UNCHANGED <<prog, pd, d, heap, vh>>

(* out := d.pack() of the record just made or decoded *)
CallPackLong ==
    /\ prog = "pwdatav3"
    /\ \/ last.op = "New"
       \/ last.op = "unpack" /\ last.err = ErrNil
    /\ last' = [LongIdle EXCEPT !.op = "pack", !.rec = last.rec,
                                !.out = packLong(last.rec)]
    /\ UNCHANGED <<prog, pd, d, heap, vh>>

(* The caller is done with the result and with the record *)
ReturnLong ==
    /\ last.op # "idle"
    /\ last' = LongIdle
    /\ UNCHANGED <<prog, pd, d, heap, vh>>

NextLong ==
    \/ CallUnmarshalBinaryLong
    \/ CallMarshalBinaryLong
    \/ CallNewLong
    \/ CallUnpackLong
    \/ CallPackLong
    \/ ReturnLong

SpecLong == InitLong /\ [][NextLong]_vars

----------------------------------------------------------------------------
(* Properties *)

(* What the record the caller holds holds *)
CurVal == RecVal(heap, Cur)

(* The big-endian number in a[off+1..off+4] lies in lo..hi (hi < 2^24) *)
BigEndianIn(a, off, lo, hi) ==
    /\ a[off + 1] = 0
    /\ LET v == a[off + 2] * 65536 + a[off + 3] * 256 + a[off + 4]
       IN lo <= v /\ v <= hi
BigEndianLow(a, off) == a[off + 2] * 65536 + a[off + 3] * 256 + a[off + 4]

(* The decoder's answer as the specification lists it *)
ListedError(a) ==
    IF Len(a) < 13 THEN ErrCorrupt
    ELSE IF a[1] # 1 THEN ErrVersion
    ELSE IF ~BigEndianIn(a, 1, 1, 1) THEN ErrFunction
    ELSE IF ~BigEndianIn(a, 5, 1, 100000) THEN ErrParameter
    ELSE IF ~BigEndianIn(a, 9, 1, 64) THEN ErrParameter
    ELSE IF Len(a) # 13 + BigEndianLow(a, 9) + 32 THEN ErrCorrupt
    ELSE ErrNil

(* A fully valid record *)
ValidVal(v) ==
    /\ v.ver = 1
    /\ v.prf = U32(1)
    /\ U32Small(v.iter) /\ 1 <= U32Val(v.iter) /\ U32Val(v.iter) <= 100000
    /\ 1 <= Len(v.salt) /\ Len(v.salt) <= 64
    /\ Len(v.hash) = 32

(* C1 on arrays shorter than 2^32 bytes: PWHash.UnmarshalBinary(a)        *)
(* returns the error of the first failing check in the listed order        *)
(* (length < 13, version, prf, iterations, salt length, total length),     *)
(* nil when all pass, and never indexes outside a.                         *)
C1_UnmarshalBinaryOrder ==
    last.op = "UnmarshalBinary" =>
        /\ last.err # Panic
        /\ last.err = ListedError(last.a)

(* C1's case: a full header whose version and iteration count are both    *)
(* wrong is reported as a version error.                                   *)
C1_Witness ==
    /\ last.op = "UnmarshalBinary"
    /\ Len(last.a) > 13
    /\ last.a[1] # 1
    /\ ~BigEndianIn(last.a, 5, 1, 100000)
    /\ last.err = ErrVersion

(* The decoder's answer as the specification lists it, on a long array *)
ListedErrorLong(a) ==
    LET len == LongLen(a)
        hdr == LongBytes(a, 0, 13)
    IN IF IntLt(len, IntOf(13)) THEN ErrCorrupt
       ELSE IF hdr[1] # 1 THEN ErrVersion
       ELSE IF ~BigEndianIn(hdr, 1, 1, 1) THEN ErrFunction
       ELSE IF ~BigEndianIn(hdr, 5, 1, 100000) THEN ErrParameter
       ELSE IF ~BigEndianIn(hdr, 9, 1, 64) THEN ErrParameter
       ELSE IF len # IntOf(13 + BigEndianLow(hdr, 9) + 32) THEN ErrCorrupt
       ELSE ErrNil

(* C1 on arrays of any length: PWHash.UnmarshalBinary(a) returns the error *)
(* of the first failing check in the listed order, the last of them        *)
(* len(a) # 13 + salt length + 32, nil when all pass, and never indexes    *)
(* outside a.                                                              *)
C1_UnmarshalBinaryOrderLong ==
    last.op = "UnmarshalBinary" =>
        /\ last.err # Panic
        /\ last.err = ListedErrorLong(last.a)

(* C2: for both record types, decoding the encoding of a valid record      *)
(* succeeds with the same five fields, and encoding a record just decoded  *)
(* from bytes b gives exactly b.                                           *)
C2_RoundTrip ==
    /\ (last.op = "Reload" /\ last.form = "binary" /\ ValidVal(CurVal)) =>
           (last.err = ErrNil /\ last.rec = CurVal)
    /\ (last.op = "UnmarshalBinary" /\ last.err = ErrNil) =>
           MarshalBinary(heap, pd) = last.a
    /\ (last.op = "unpack" /\ last.err = ErrNil) =>
           pack(heap, d) = last.a

(* C2's case: a valid record with the longest salt went through encode     *)
(* and decode.                                                             *)
C2_Witness ==
    /\ last.op = "Reload"
    /\ last.form = "binary"
    /\ ValidVal(CurVal)
    /\ Len(CurVal.salt) = 64
    /\ last.rec = CurVal

(* C3 on records with a salt shorter than 2^32 bytes: MarshalBinary and   *)
(* pack return 13 + len(salt) + len(hash) bytes:                           *)
(* the version, then prf, iterations and salt length big-endian, the salt, *)
(* the hash; no error; the record's fields are as before.                  *)
C3_Layout ==
    last.op \in {"MarshalBinary", "pack"} =>
        LET v == last.rec
            out == last.out
            n == Len(v.salt)
        IN /\ last.err = ErrNil
           /\ Len(out) = 13 + n + Len(v.hash)
           /\ out[1] = v.ver
           /\ Uint32At(out, 1) = v.prf
           /\ Uint32At(out, 5) = v.iter
           /\ BigEndianIn(out, 9, n, n)
           /\ SubSeq(out, 14, 13 + n) = v.salt
           /\ SubSeq(out, 14 + n, Len(out)) = v.hash
           /\ CurVal = v

(* C3's case: a record whose salt and hash differ in length was encoded *)
C3_Witness ==
    /\ last.op \in {"MarshalBinary", "pack"}
    /\ Len(last.rec.salt) = 2
    /\ Len(last.rec.hash) = 32
    /\ Len(last.out) = 47

(* C3 on records of any size: MarshalBinary and pack return                *)
(* 13 + len(salt) + len(hash) bytes: the version, then prf, iterations and *)
(* len(salt) big-endian, the salt, the hash; no error.                     *)
C3_LayoutLong ==
    last.op \in {"MarshalBinary", "pack"} =>
        LET v == last.rec
            out == last.out
            hdr == LongBytes(out, 0, 13)
        IN /\ last.err = ErrNil
           /\ LongLen(out) = IntAdd(IntOf(13), IntAdd(LongLen(v.salt), LongLen(v.hash)))
           /\ hdr[1] = v.ver
           /\ Uint32At(hdr, 1) = v.prf
           /\ Uint32At(hdr, 5) = v.iter
           /\ IntOfUint32(Uint32At(hdr, 9)) = LongLen(v.salt)
           /\ LongFrom(out, 13) = v.salt \o v.hash

(* The binary encoding and the verification of the program that runs *)
Encoding(h, r) == IF prog = "pwhash" THEN MarshalBinary(h, r) ELSE pack(h, r)
Verifies(h, r, pw) ==
    IF prog = "pwhash" THEN Verify(h, r, pw) ELSE VerifyPassword(h, r, pw)

(* What decoding a text gives, by the decoder of the program that runs *)
DecodeText(t) ==
    IF prog = "pwhash" THEN UnmarshalText(EmptyHeap, ZeroRec, t)
    ELSE fromBase64(EmptyHeap, t)

(* C4: VerifyHash(h, pw) returns normally whatever the random source does: *)
(* (false, e) with the decode error e when h does not decode, and          *)
(* (d.VerifyPassword(pw), nil) when h decodes to d.                        *)
C4_VerifyHashReturns ==
    last.op = "VerifyHash" =>
        LET r == fromBase64(EmptyHeap, last.text) IN
        /\ last.err # Panic
        /\ r.err # ErrNil => (last.ok = FALSE /\ last.err = r.err)
        /\ r.err = ErrNil =>
               (last.ok = VerifyPassword(r.heap, r.rec, last.pw) /\ last.err = ErrNil)

(* C5: after a successful New or NewFromPassword with password pw and any  *)
(* iteration count, the count read back from the record is the count the   *)
(* key was derived with, and verifying pw against the record is true.      *)
C5_NewVerifies ==
    (last.op \in {"New", "NewFromPassword"} /\ last.err = ErrNil) =>
        /\ IntOfUint32(Cur.iter) = last.iter
        /\ Verifies(heap, Cur, last.pw)

(* C6: a text that decodes, with characters cut from its end or appended,  *)
(* fails to decode with ErrCorrupt or a base64 error, and VerifyHash of it *)
(* is false.                                                               *)
C6_MutilatedTextFails ==
    (/\ last.op \in {"UnmarshalText", "fromBase64", "VerifyHash"}
     /\ last.text # last.base
     /\ DecodeText(last.base).err = ErrNil) =>
        /\ last.err \in {ErrCorrupt, ErrBase64}
        /\ last.op = "VerifyHash" => last.ok = FALSE

(* C7: when PWHash.UnmarshalBinary or UnmarshalText returns an error, the  *)
(* receiver's five fields are as before the call, and so are its encoding  *)
(* and what it verifies.                                                   *)
C7_FailedDecodeKeepsReceiver ==
    [][(last'.op \in {"UnmarshalBinary", "UnmarshalText"} /\ last'.err # ErrNil) =>
           /\ RecVal(heap', pd') = RecVal(heap, pd)
           /\ MarshalBinary(heap', pd') = MarshalBinary(heap, pd)
           /\ \A pw \in Passwords : Verify(heap', pd', pw) = Verify(heap, pd, pw)]_vars

(* C7's case: a receiver that holds a decoded record was handed an array   *)
(* with another iteration count and a wrong total length, and refused it.  *)
C7_Witness ==
    /\ last.op = "UnmarshalBinary"
    /\ last.err = ErrCorrupt
    /\ Len(last.a) > 13
    /\ ValidVal(RecVal(heap, pd))
    /\ Uint32At(last.a, 5) # pd.iter

(* C8: every record a from-password constructor returns is fully valid     *)
(* with a 16-byte salt, and the decoder accepts its text encoding and      *)
(* gives back the same fields.                                             *)
C8_ConstructedIsValid ==
    (last.op \in {"New", "NewFromPassword"} /\ last.err = ErrNil) =>
        /\ ValidVal(CurVal)
        /\ Len(CurVal.salt) = 16
        /\ LET t == IF prog = "pwhash" THEN MarshalText(heap, pd) ELSE toBase64(heap, d)
               r == DecodeText(t)
           IN r.err = ErrNil /\ RecVal(r.heap, r.rec) = CurVal

(* C9: PWDataV3.unpack classifies every byte array as the listed decode    *)
(* does, so every record it accepts is fully valid.                        *)
C9_UnpackAsListed ==
    last.op = "unpack" =>
        /\ last.err = ListedError(last.a)
        /\ last.err = ErrNil => ValidVal(last.rec)

(* C10: after a record was made from the caller's buffers (UnmarshalBinary,*)
(* unpack, the low-level New), a write to those buffers leaves the         *)
(* record's fields, its encoding and what it verifies unchanged.           *)
C10_RecordOwnsBytes ==
    [][last'.op = "write" =>
           /\ RecVal(heap', Cur') = RecVal(heap, Cur)
           /\ Encoding(heap', Cur') = Encoding(heap, Cur)
           /\ \A pw \in Passwords :
                  Verifies(heap', Cur', pw) = Verifies(heap, Cur, pw)]_vars

(* The statement-by-statement VerifyHash ends as the one-step VerifyHash  *)
(* of Spec does.                                                           *)
VerifyHashAgrees ==
    vh.pc \in {"returned", "panicked"} =>
        LET res == VerifyHash(heap, vh.hash, vh.pw, vh.rnd) IN
        last.ok = res.ok /\ last.err = res.err

(* C11: every call of VerifyHash that returns has made one key derivation  *)
(* and then one constant-time comparison before the return.  When the text *)
(* decodes, the derivation is for the caller's password with the decoded   *)
(* salt and iteration count, and the key is compared with the decoded      *)
(* hash.  When the text does not decode, the derivation is for the empty   *)
(* password, the 16 bytes the random source gave in this call and 10000    *)
(* iterations, and the call returns (false, the decode error).             *)
C11_DerivesBeforeReturn ==
    vh.pc = "returned" =>
        LET r == fromBase64(EmptyHeap, vh.hash)
            v == RecVal(r.heap, r.rec)
        IN
        /\ vh.steps = <<"hashPW", "ConstantTimeCompare">>
        /\ vh.cmp.y = hashPW(vh.kdf.pw, vh.kdf.salt, vh.kdf.iter)
        /\ r.err = ErrNil =>
               /\ vh.kdf = [pw |-> vh.pw, salt |-> v.salt,
                            iter |-> IntOfUint32(v.iter)]
               /\ vh.cmp.x = v.hash
               /\ last.err = ErrNil
        /\ r.err # ErrNil =>
               /\ ~vh.rnd.err
               /\ vh.kdf = [pw |-> <<>>, salt |-> vh.rnd.bytes, iter |-> IntOf(10000)]
               /\ Len(vh.kdf.salt) = 16
               /\ last.ok = FALSE
               /\ last.err = r.err

(* C11's case: a call with a text that does not decode has returned the    *)
(* decode error, after deriving the key of the empty password.             *)
C11_Witness ==
    /\ vh.pc = "returned"
    /\ last.op = "VerifyHash"
    /\ last.err \in {ErrCorrupt, ErrVersion, ErrBase64}
    /\ vh.steps = <<"hashPW", "ConstantTimeCompare">>
    /\ vh.kdf.pw = <<>>
    /\ Len(vh.kdf.salt) = 16

====
